---------------------------- MODULE Spec2Model ----------------------------
(***************************************************************************)
(* A model of DoFTools (dof_tools.cc): the sparsity-pattern builders and   *)
(* the hanging-node constraint builder.                                    *)
(*                                                                         *)
(* The triangulation, the finite element and the DoF numbering are inputs  *)
(* of these functions.  The inputs enumerated here are strips of NX coarse *)
(* quadrilaterals of which any subset is refined once, with the elements   *)
(* listed in FEs.  Coordinates are integers: a coarse cell is 4 units      *)
(* wide, a child cell 2 units, so that every vertex, every line midpoint   *)
(* and every cell centre is an integer point.  Local indices are 1-based   *)
(* here (0-based in the source).  Assert is modelled as enabled (debug     *)
(* build): a failed Assert ends the call with the exception it names.      *)
(***************************************************************************)
EXTENDS Integers, Sequences, FiniteSets, TLC

VARIABLES
  dim,                      \* deal_II_dimension
  refined,                  \* tria: the numbers of the coarse cells that are refined
  user_flags,               \* tria: the lines (3d: quads) whose user flag is set
  fe,                       \* index into FEs: dof.get_fe()
  op,                       \* the function being called
  n_rows, n_cols,           \* sparsity.n_rows(), sparsity.n_cols()
  mask,                     \* argument mask of the masked builder
  dof_to_boundary_mapping,  \* argument of the boundary builders
  boundary_indicators,      \* keys of the FunctionMap argument
  pc,                       \* "call" | "loop" | "done" | "failed"
  err,                      \* the exception raised, "" if none
  sparsity,                 \* the entries added so far: a set of <<row, col>>
  visited,                  \* the cells or faces the traversal has passed
  blocks,                   \* history: executions of the neighbour block
  constraints,              \* ConstraintMatrix: the lines added so far
  line_pos,                 \* position of the line iterator
  coarse_refined,           \* coarse grid: the set of its refined coarse cells
  coarse_fe,                \* coarse grid: number of its element in FEs
  coarse_component,         \* argument coarse_component
  fine_component,           \* argument fine_component
  past_the_end,             \* what lies in memory behind parameter_dofs
  weights,                  \* FullMatrix weights
  representants,            \* vector representants
  scratch_pad,              \* MatrixFree: the list of scratch pads of every thread
  thread_pc,                \* where every thread stands in acquire_scratch_data
  thread_it,                \* the list entry the iterator of a thread points to
  held,                     \* the pointers every thread got and has not released
  outstanding,              \* history: per buffer, the acquisitions not yet released
  face_partition_data,      \* task_info.face_partition_data
  boundary_partition_data,  \* task_info.boundary_partition_data
  faces,                    \* face_info.faces: exterior_face_no of every face batch
  macro_face,               \* argument of get_boundary_id
  result,                   \* the value a query returns
  vectors,                  \* the blocks of the vectors src and dst
  src_and_dst_are_same,     \* MFWorker: src and dst are one object
  src_vector_face_access,   \* argument of loop
  dst_vector_face_access,   \* argument of loop
  part_kind,                \* what get_partitioner returns for the chosen access
  n_face_variants,          \* vector_partitioner_face_variants.size()
  exchanger,                \* src_data_exchanger and dst_data_exchanger
  scratch_pad_non_threadsafe, \* MatrixFree: the in-use flags of the shared list
  entry_ghosted,            \* history: has_ghost_elements of the blocks of src on entry
  n_array_elements,         \* VectorizedArray<Number>::n_array_elements
  cell_level_index,         \* MatrixFree: the cell of every lane of every cell batch
  macro_cell,               \* argument of the queries of a cell batch
  face_info,                \* face_info.faces: cells_interior and cells_exterior
  cell_active_fe_index,     \* dof_info[0].cell_active_fe_index
  ad,                       \* SolverDirectKLU2: the AdditionalData of the constructor
  parameter_list,           \* SolverDirectBase::parameter_list
  klu2_params,              \* SolverDirectKLU2: the local list of the constructor
  amesos2_parameters,       \* the list the Amesos2 solver has got by setParameters
  worker,                   \* MFWorker: zero_dst_vector, the functions, and the ranges it is called with
  issued,                   \* history: the functions the worker has called
  entry_user_flags          \* history: the user flags of tria on entry

vars == <<dim, refined, user_flags, fe, op, n_rows, n_cols, mask,
          dof_to_boundary_mapping, boundary_indicators, pc, err, sparsity,
          visited, blocks, constraints, line_pos, coarse_refined, coarse_fe,
          coarse_component, fine_component, past_the_end, weights,
          representants, scratch_pad, thread_pc, thread_it, held, outstanding,
          face_partition_data, boundary_partition_data, faces, macro_face,
          result, vectors, src_and_dst_are_same, src_vector_face_access,
          dst_vector_face_access, part_kind, n_face_variants, exchanger,
          scratch_pad_non_threadsafe, entry_ghosted, worker, issued,
          n_array_elements, cell_level_index, macro_cell, face_info,
          cell_active_fe_index, ad, parameter_list, klu2_params,
          amesos2_parameters, entry_user_flags>>

\* the variables of the direct solvers
solverVars == <<ad, parameter_list, klu2_params, amesos2_parameters>>

\* the arguments of the functions of DoFTools
meshInputs == <<dim, refined, fe, op, n_rows, n_cols, mask,
                dof_to_boundary_mapping, boundary_indicators, entry_user_flags>>

inputVars == <<meshInputs, solverVars>>

\* the variables of compute_intergrid_constraints alone
intergridVars == <<coarse_refined, coarse_fe, coarse_component, fine_component,
                   past_the_end, weights, representants>>

\* the variables of the scratch pads of MatrixFree
scratchVars == <<scratch_pad, thread_pc, thread_it, held, outstanding>>

\* the face data of a MatrixFree object and the arguments of its queries
faceVars == <<face_partition_data, boundary_partition_data, faces, macro_face,
              n_array_elements, cell_level_index, macro_cell, face_info,
              cell_active_fe_index>>

\* the arguments of MatrixFree::loop
loopInputs == <<src_and_dst_are_same, src_vector_face_access,
                dst_vector_face_access, part_kind, n_face_variants,
                entry_ghosted, worker>>

\* the variables of MatrixFree
matrixFreeVars == <<scratchVars, faceVars, loopInputs, result, vectors,
                    exchanger, scratch_pad_non_threadsafe, issued>>

\* the variables the functions of DoFTools do not touch
otherVars == <<intergridVars, matrixFreeVars>>

----------------------------------------------------------------------------
(* Bounds and constants *)

\* number of coarse cells of the strip
NX == 2

\* GeometryInfo<2>::faces_per_cell
faces_per_cell == 4

\* GeometryInfo<2>::subfaces_per_face
subfaces_per_face == 2

\* DoFHandler<dim>::invalid_dof_index, static_cast<unsigned int>(-1); unsigned
\* int is modelled 16 bits wide
invalid_dof_index == 65535

\* the boundary indicator reserved for interior faces
interior_indicator == 255

UIntMod == invalid_dof_index + 1

----------------------------------------------------------------------------
(* Finite elements: the static description consumed from FiniteElement.     *)
(* constraints is fe.constraints(), in units of 1/8: m = dofs_per_vertex +  *)
(* 2*dofs_per_line rows, n = 2*dofs_per_vertex + dofs_per_line columns.     *)
(* component[i] is system_to_component_index(i).first.                      *)

FE_Q1 ==
  [dofs_per_vertex |-> 1, dofs_per_line |-> 0, dofs_per_quad |-> 0,
   n_components |-> 1, component |-> <<0, 0, 0, 0>>,
   constraints |-> << <<4, 4>> >>]

FE_Q2 ==
  [dofs_per_vertex |-> 1, dofs_per_line |-> 1, dofs_per_quad |-> 1,
   n_components |-> 1, component |-> <<0, 0, 0, 0, 0, 0, 0, 0, 0>>,
   constraints |-> << <<0, 0, 8>>, <<3, -1, 6>>, <<-1, 3, 6>> >>]

FE_Q1x2 ==
  [dofs_per_vertex |-> 2, dofs_per_line |-> 0, dofs_per_quad |-> 0,
   n_components |-> 2, component |-> <<0, 1, 0, 1, 0, 1, 0, 1>>,
   constraints |-> << <<4, 0, 4, 0>>, <<0, 4, 0, 4>> >>]

FE_DGQ0 ==
  [dofs_per_vertex |-> 0, dofs_per_line |-> 0, dofs_per_quad |-> 1,
   n_components |-> 1, component |-> <<0>>,
   constraints |-> << >>]

FEs == <<FE_Q1, FE_Q2, FE_Q1x2, FE_DGQ0>>

\* the weight 1 in the units of the tables
WeightOne == 8

FE == FEs[fe]

dofs_per_cell == 4 * FE.dofs_per_vertex + 4 * FE.dofs_per_line + FE.dofs_per_quad

dofs_per_face == 2 * FE.dofs_per_vertex + FE.dofs_per_line

----------------------------------------------------------------------------
(* Triangulation: cells [x, y, s] by lower-left corner and size, lines      *)
(* [x, y, s, h] by first vertex, length and direction (h: horizontal).      *)

CoarseCell(k) == [x |-> 4 * k, y |-> 0, s |-> 4]

CoarseCells == {CoarseCell(k) : k \in 0 .. NX - 1}

\* the meshes of the model, each named by the set of its refined coarse cells
Meshes == UNION {{r} : r \in SUBSET (0 .. NX - 1)}

level(c) == IF c.s = 4 THEN 0 ELSE 1

has_children(c) == c.s = 4 /\ (c.x \div 4) \in refined

\* child(i), i = 0..3, counter-clockwise from the lower-left child
child(c, i) ==
  LET h == c.s \div 2
  IN  CASE i = 0 -> [x |-> c.x,     y |-> c.y,     s |-> h]
        [] i = 1 -> [x |-> c.x + h, y |-> c.y,     s |-> h]
        [] i = 2 -> [x |-> c.x + h, y |-> c.y + h, s |-> h]
        [] i = 3 -> [x |-> c.x,     y |-> c.y + h, s |-> h]

\* the cells, and the active cells, of the mesh whose refined coarse cells are r
CellsOf(r) ==
  CoarseCells \cup {child(CoarseCell(k), i) : k \in r, i \in 0 .. 3}

ActiveCellsOf(r) == CellsOf(r) \ {CoarseCell(k) : k \in r}

AllCells == CellsOf(refined)

ActiveCells == ActiveCellsOf(refined)

\* vertex(i), i = 0..3, counter-clockwise from the lower-left vertex
CellVertex(c, i) ==
  CASE i = 0 -> <<c.x,       c.y>>
    [] i = 1 -> <<c.x + c.s, c.y>>
    [] i = 2 -> <<c.x + c.s, c.y + c.s>>
    [] i = 3 -> <<c.x,       c.y + c.s>>

\* face(i) = line(i), i = 0..3: bottom, right, top, left
CellFace(c, i) ==
  CASE i = 0 -> [x |-> c.x,       y |-> c.y,       s |-> c.s, h |-> TRUE]
    [] i = 1 -> [x |-> c.x + c.s, y |-> c.y,       s |-> c.s, h |-> FALSE]
    [] i = 2 -> [x |-> c.x,       y |-> c.y + c.s, s |-> c.s, h |-> TRUE]
    [] i = 3 -> [x |-> c.x,       y |-> c.y,       s |-> c.s, h |-> FALSE]

LineVertex(l, i) ==
  IF i = 0 THEN <<l.x, l.y>>
  ELSE IF l.h THEN <<l.x + l.s, l.y>> ELSE <<l.x, l.y + l.s>>

LineChild(l, i) ==
  LET h == l.s \div 2
  IN  IF i = 0 THEN [l EXCEPT !.s = h]
      ELSE IF l.h THEN [l EXCEPT !.s = h, !.x = l.x + h]
           ELSE [l EXCEPT !.s = h, !.y = l.y + h]

\* the lines, and the active lines, of every mesh of the model
LineTable ==
  [r \in Meshes |-> {CellFace(c, i) : c \in CellsOf(r), i \in 0 .. 3}]

ActiveLineTable ==
  [r \in Meshes |->
     {l \in LineTable[r] : ~(l.s = 4 /\ LineChild(l, 0) \in LineTable[r])}]

AllLines == LineTable[refined]

LineHasChildren(l) == l.s = 4 /\ LineChild(l, 0) \in AllLines

ActiveLines == ActiveLineTable[refined]

LineAtBoundary(l) ==
  IF l.h THEN l.y \in {0, 4} ELSE l.x \in {0, 4 * NX}

at_boundary(c, i) == LineAtBoundary(CellFace(c, i))

\* boundary indicators of the mesh: 0 on the bottom and top sides, 1 on the
\* left and right sides, 255 on interior lines
boundary_indicator(l) ==
  IF ~LineAtBoundary(l) THEN interior_indicator
  ELSE IF l.h THEN 0 ELSE 1

\* cell->neighbor(face): the cell of the same level behind the face if the
\* mesh has it, else the coarser cell there
neighbor(c, i) ==
  LET same == CASE i = 0 -> [c EXCEPT !.y = c.y - c.s]
                [] i = 1 -> [c EXCEPT !.x = c.x + c.s]
                [] i = 2 -> [c EXCEPT !.y = c.y + c.s]
                [] i = 3 -> [c EXCEPT !.x = c.x - c.s]
  IN  IF same \in AllCells THEN same
      ELSE CoarseCell(same.x \div 4)

\* line small lies on line big
LineOn(small, big) ==
  /\ small.h = big.h
  /\ IF big.h
     THEN small.y = big.y /\ big.x <= small.x /\ small.x + small.s <= big.x + big.s
     ELSE small.x = big.x /\ big.y <= small.y /\ small.y + small.s <= big.y + big.s

\* cell->neighbor_of_neighbor(face): the number, in the neighbour, of the face
\* on which this face lies
neighbor_of_neighbor(c, i) ==
  CHOOSE j \in 0 .. faces_per_cell - 1 : LineOn(CellFace(c, i), CellFace(neighbor(c, i), j))

\* GeometryInfo<2>::child_cell_on_face(face, subface)
child_cell_on_face(face, subface) ==
  << <<0, 1>>, <<1, 2>>, <<3, 2>>, <<0, 3>> >>[face + 1][subface + 1]

----------------------------------------------------------------------------
(* DoF numbering: the DoFs live on the vertices, lines and quads of the     *)
(* active cells and are numbered densely from 0, vertices first.            *)

VertexKey(v, d) == <<0, v[1], v[2], d>>

LineKey(l, d) ==
  IF l.h THEN <<1, l.x + l.s \div 2, l.y, d>> ELSE <<1, l.x, l.y + l.s \div 2, d>>

QuadKey(c, d) == <<2, c.x + c.s \div 2, c.y + c.s \div 2, d>>

KeyCode(k) == ((k[1] * (4 * NX + 1) + k[2]) * 5 + k[3]) * 4 + k[4]

DofKeysOf(r, f) ==
  {VertexKey(CellVertex(c, i), d) :
     c \in ActiveCellsOf(r), i \in 0 .. 3, d \in 0 .. FEs[f].dofs_per_vertex - 1}
  \cup {LineKey(CellFace(c, i), d) :
     c \in ActiveCellsOf(r), i \in 0 .. 3, d \in 0 .. FEs[f].dofs_per_line - 1}
  \cup {QuadKey(c, d) : c \in ActiveCellsOf(r), d \in 0 .. FEs[f].dofs_per_quad - 1}

\* the numbering of every mesh and element of the model
DofNumbering ==
  [r \in Meshes |->
     [f \in DOMAIN FEs |->
        [k \in DofKeysOf(r, f) |->
           Cardinality({j \in DofKeysOf(r, f) : KeyCode(j) < KeyCode(k)})]]]

n_dofs == Cardinality(DOMAIN DofNumbering[refined][fe])

\* cell->get_dof_indices on the mesh r with the element f: vertex DoFs, then
\* line DoFs, then quad DoFs
CellDofsOf(r, f, c) ==
  LET num == DofNumbering[r][f]
      dpv == FEs[f].dofs_per_vertex
      dpl == FEs[f].dofs_per_line
      nv  == 4 * dpv
      nl  == 4 * dpl
  IN  [i \in 1 .. nv + nl + FEs[f].dofs_per_quad |->
         IF i <= nv
         THEN num[VertexKey(CellVertex(c, (i - 1) \div dpv), (i - 1) % dpv)]
         ELSE IF i <= nv + nl
         THEN num[LineKey(CellFace(c, (i - nv - 1) \div dpl), (i - nv - 1) % dpl)]
         ELSE num[QuadKey(c, i - nv - nl - 1)]]

CellDofTable ==
  [r \in Meshes |->
     [f \in DOMAIN FEs |-> [c \in ActiveCellsOf(r) |-> CellDofsOf(r, f, c)]]]

get_dof_indices(c) == CellDofTable[refined][fe][c]

\* line->vertex_dof_index(vertex, d) and line->dof_index(d)
vertex_dof_index(l, vertex, d) ==
  DofNumbering[refined][fe][VertexKey(LineVertex(l, vertex), d)]

line_dof_index(l, d) == DofNumbering[refined][fe][LineKey(l, d)]

\* face->get_dof_indices on the mesh r with the element f: the DoFs of the two
\* vertices, then of the line
FaceDofsOf(r, f, l) ==
  LET num == DofNumbering[r][f]
      dpv == FEs[f].dofs_per_vertex
      nv  == 2 * dpv
  IN  [i \in 1 .. nv + FEs[f].dofs_per_line |->
         IF i <= nv
         THEN num[VertexKey(LineVertex(l, (i - 1) \div dpv), (i - 1) % dpv)]
         ELSE num[LineKey(l, i - nv - 1)]]

FaceDofTable ==
  [r \in Meshes |->
     [f \in DOMAIN FEs |-> [l \in ActiveLineTable[r] |-> FaceDofsOf(r, f, l)]]]

face_get_dof_indices(l) == FaceDofTable[refined][fe][l]

\* the order of the active-cell iterator: by level, then by position
CellCode(c) == (level(c) * (4 * NX + 1) + c.x) * 5 + c.y


NextCell == CHOOSE c \in ActiveCells \ visited :
              \A o \in ActiveCells \ visited : CellCode(c) <= CellCode(o)

\* the order of the face iterator: by level, then by position
LineCode(l) == ((IF l.s = 4 THEN 0 ELSE 1) * 2 + (IF l.h THEN 0 ELSE 1)) * 500
               + l.x * 5 + l.y

NextActiveFace == CHOOSE l \in ActiveLines \ visited :
                    \A o \in ActiveLines \ visited : LineCode(l) <= LineCode(o)

Fail(e) == /\ pc' = "failed"
           /\ err' = e

----------------------------------------------------------------------------
(* make_sparsity_pattern (dof, sparsity) *)

\* a faulty variant that couples each pair of local DoFs in one direction only
PlainCellEntries_UpperOnly(c) ==
  LET d == get_dof_indices(c)
  IN  {<<d[i], d[j]>> : <<i, j>> \in
         {ij \in (1 .. dofs_per_cell) \X (1 .. dofs_per_cell) : ij[1] <= ij[2]}}

\* the entries one cell adds
PlainCellEntries(c) ==
  LET d == get_dof_indices(c)
  IN  {<<d[i], d[j]>> : i \in 1 .. dofs_per_cell, j \in 1 .. dofs_per_cell}

\* a faulty variant that compares the number of rows only
PlainEnter_RowsOnly ==
  /\ pc = "call" /\ op = "plain"
  /\ IF n_rows # n_dofs
     THEN Fail("ExcDimensionMismatch")
     ELSE pc' = "loop" /\ err' = err
  /\ UNCHANGED <<otherVars, inputVars, user_flags, sparsity, visited, blocks, constraints, line_pos>>

PlainEnter ==
  /\ pc = "call" /\ op = "plain"
  /\ IF n_rows # n_dofs \/ n_cols # n_dofs
     THEN Fail("ExcDimensionMismatch")
     ELSE pc' = "loop" /\ err' = err
  /\ UNCHANGED <<otherVars, inputVars, user_flags, sparsity, visited, blocks, constraints, line_pos>>

PlainCell ==
  /\ pc = "loop" /\ op = "plain"
  /\ sparsity' = sparsity \cup PlainCellEntries(NextCell)
  /\ visited' = visited \cup {NextCell}
  /\ pc' = IF visited' = ActiveCells THEN "done" ELSE "loop"
  /\ UNCHANGED <<otherVars, inputVars, user_flags, err, blocks, constraints, line_pos>>

\* everything the plain builder adds on the present mesh
PlainResult == UNION {PlainCellEntries(c) : c \in ActiveCells}

----------------------------------------------------------------------------
(* make_sparsity_pattern (dof, mask, sparsity) *)

\* the first size check of the mask that fails, if any
MaskSizeOk ==
  /\ Len(mask) = FE.n_components
  /\ \A i \in 1 .. Len(mask) : Len(mask[i]) = FE.n_components

\* dof_mask[i][j], from the components of the local DoFs i and j
dof_mask(i, j) == mask[FE.component[i] + 1][FE.component[j] + 1]

\* a faulty variant that adds the pairs the mask excludes
MaskedCellEntries_Negated(c) ==
  LET d == get_dof_indices(c)
  IN  {<<d[i], d[j]>> : <<i, j>> \in
         {ij \in (1 .. dofs_per_cell) \X (1 .. dofs_per_cell) : ~dof_mask(ij[1], ij[2])}}

MaskedCellEntries(c) ==
  LET d == get_dof_indices(c)
  IN  {<<d[i], d[j]>> : <<i, j>> \in
         {ij \in (1 .. dofs_per_cell) \X (1 .. dofs_per_cell) : dof_mask(ij[1], ij[2])}}

MaskedEnter ==
  /\ pc = "call" /\ op = "masked"
  /\ IF n_rows # n_dofs \/ n_cols # n_dofs \/ ~MaskSizeOk
     THEN Fail("ExcDimensionMismatch")
     ELSE pc' = "loop" /\ err' = err
  /\ UNCHANGED <<otherVars, inputVars, user_flags, sparsity, visited, blocks, constraints, line_pos>>

MaskedCell ==
  /\ pc = "loop" /\ op = "masked"
  /\ sparsity' = sparsity \cup MaskedCellEntries(NextCell)
  /\ visited' = visited \cup {NextCell}
  /\ pc' = IF visited' = ActiveCells THEN "done" ELSE "loop"
  /\ UNCHANGED <<otherVars, inputVars, user_flags, err, blocks, constraints, line_pos>>

----------------------------------------------------------------------------
(* make_boundary_sparsity_pattern, both overloads *)

AllIndicators == {0, 1}

\* the selections of boundary indicators
Selections == UNION {{sel} : sel \in SUBSET AllIndicators}

\* the DoFs on the boundary faces whose indicator is selected
BoundaryDofsOf(r, f, sel) ==
  UNION {{FaceDofTable[r][f][l][i] : i \in DOMAIN FaceDofTable[r][f][l]} :
           l \in {a \in ActiveLineTable[r] : boundary_indicator(a) \in sel}}

BoundaryDofTable ==
  [r \in Meshes |->
     [f \in DOMAIN FEs |-> [sel \in Selections |-> BoundaryDofsOf(r, f, sel)]]]

BoundaryDofs(sel) == BoundaryDofTable[refined][fe][sel]

\* dof.n_boundary_dofs() and dof.n_boundary_dofs(boundary_indicators)
n_boundary_dofs(sel) == Cardinality(BoundaryDofs(sel))

\* a mapping as DoFHandler::map_dof_to_boundary_indices builds it: the
\* selected boundary DoFs numbered from 0 without gaps, the others invalid
BoundaryMappingOf(r, f, sel) ==
  [d \in 0 .. Cardinality(DOMAIN DofNumbering[r][f]) - 1 |->
     IF d \in BoundaryDofTable[r][f][sel]
     THEN Cardinality({b \in BoundaryDofTable[r][f][sel] : b < d})
     ELSE invalid_dof_index]

BoundaryMappingTable ==
  [r \in Meshes |->
     [f \in DOMAIN FEs |->
        [sel \in Selections |-> BoundaryMappingOf(r, f, sel)]]]

BoundaryMapping(sel) == BoundaryMappingTable[refined][fe][sel]

SeqMax(f) == CHOOSE m \in {f[i] : i \in DOMAIN f} : \A i \in DOMAIN f : f[i] <= m

SeqMin(f) == CHOOSE m \in {f[i] : i \in DOMAIN f} : \A i \in DOMAIN f : m <= f[i]

\* the largest entry that is not the invalid index, 0 if there is none
MaxValidElement(f) ==
  LET valid == {f[i] : i \in DOMAIN f} \ {invalid_dof_index}
  IN  IF valid = {} THEN 0 ELSE CHOOSE m \in valid : \A v \in valid : v <= m

\* the outcomes of Assert(*min_element(dofs_on_this_face) != invalid): taking
\* the minimum of an empty range dereferences the end iterator, so for an
\* element without face DoFs either outcome is possible
FaceDofsChecked(dofs) ==
  IF DOMAIN dofs = {} THEN BOOLEAN ELSE {SeqMin(dofs) # invalid_dof_index}

\* the entries one face adds
BoundaryFaceEntries(l) ==
  LET d == face_get_dof_indices(l)
  IN  {<<dof_to_boundary_mapping[d[i]], dof_to_boundary_mapping[d[j]]>> :
         i \in 1 .. dofs_per_face, j \in 1 .. dofs_per_face}

\* a faulty variant of the 1d specialisations that returns without a failure
BoundaryEnter1d_Returns ==
  /\ pc = "call" /\ op \in {"boundary", "boundary_map"} /\ dim = 1
  /\ pc' = "done" /\ err' = err
  /\ UNCHANGED <<otherVars, inputVars, user_flags, sparsity, visited, blocks, constraints, line_pos>>

\* the 1d specialisations of both overloads
BoundaryEnter1d ==
  /\ pc = "call" /\ op \in {"boundary", "boundary_map"} /\ dim = 1
  /\ Fail("ExcInternalError")
  /\ UNCHANGED <<otherVars, inputVars, user_flags, sparsity, visited, blocks, constraints, line_pos>>

BoundaryEnter ==
  /\ pc = "call" /\ op = "boundary" /\ dim = 2
  /\ IF Cardinality(DOMAIN dof_to_boundary_mapping) # n_dofs
     THEN Fail("ExcInternalError")
     ELSE IF n_rows # n_boundary_dofs(AllIndicators)
             \/ n_cols # n_boundary_dofs(AllIndicators)
     THEN Fail("ExcDimensionMismatch")
     ELSE IF SeqMax(dof_to_boundary_mapping) # (n_rows - 1) % UIntMod
     THEN Fail("ExcInternalError")
     ELSE pc' = "loop" /\ err' = err
  /\ UNCHANGED <<otherVars, inputVars, user_flags, sparsity, visited, blocks, constraints, line_pos>>

BoundaryFace ==
  /\ pc = "loop" /\ op = "boundary"
  /\ LET face == NextActiveFace
     IN  /\ visited' = visited \cup {face}
         /\ IF LineAtBoundary(face)
            THEN \E ok \in FaceDofsChecked(face_get_dof_indices(face)) :
                   IF ok
                   THEN /\ sparsity' = sparsity \cup BoundaryFaceEntries(face)
                        /\ pc' = IF visited' = ActiveLines THEN "done" ELSE "loop"
                        /\ err' = err
                   ELSE /\ Fail("ExcInternalError")
                        /\ sparsity' = sparsity
            ELSE /\ pc' = IF visited' = ActiveLines THEN "done" ELSE "loop"
                 /\ UNCHANGED <<sparsity, err>>
  /\ UNCHANGED <<otherVars, inputVars, user_flags, blocks, constraints, line_pos>>

BoundaryMapEnter ==
  /\ pc = "call" /\ op = "boundary_map" /\ dim = 2
  /\ IF Cardinality(DOMAIN dof_to_boundary_mapping) # n_dofs
     THEN Fail("ExcInternalError")
     ELSE IF interior_indicator \in boundary_indicators
     THEN Fail("ExcInvalidBoundaryIndicator")
     ELSE IF n_rows # n_boundary_dofs(boundary_indicators)
             \/ n_cols # n_boundary_dofs(boundary_indicators)
     THEN Fail("ExcDimensionMismatch")
     ELSE IF MaxValidElement(dof_to_boundary_mapping) # (n_rows - 1) % UIntMod
     THEN Fail("ExcInternalError")
     ELSE pc' = "loop" /\ err' = err
  /\ UNCHANGED <<otherVars, inputVars, user_flags, sparsity, visited, blocks, constraints, line_pos>>

BoundaryMapFace ==
  /\ pc = "loop" /\ op = "boundary_map"
  /\ LET face == NextActiveFace
     IN  /\ visited' = visited \cup {face}
         /\ IF boundary_indicator(face) \in boundary_indicators
            THEN \E ok \in FaceDofsChecked(face_get_dof_indices(face)) :
                   IF ok
                   THEN /\ sparsity' = sparsity \cup BoundaryFaceEntries(face)
                        /\ pc' = IF visited' = ActiveLines THEN "done" ELSE "loop"
                        /\ err' = err
                   ELSE /\ Fail("ExcInternalError")
                        /\ sparsity' = sparsity
            ELSE /\ pc' = IF visited' = ActiveLines THEN "done" ELSE "loop"
                 /\ UNCHANGED <<sparsity, err>>
  /\ UNCHANGED <<otherVars, inputVars, user_flags, blocks, constraints, line_pos>>

----------------------------------------------------------------------------
(* make_flux_sparsity_pattern *)

\* a faulty variant that couples this cell with the other one, not the other
\* one with this cell
NeighborBlockEntries_OneWay(this, other) ==
  {<<this[i], other[j]>> : i \in DOMAIN this, j \in DOMAIN other}

\* the coupling of the DoFs of this cell with those of the cell across a face
NeighborBlockEntries(this, other) ==
  {<<this[i], other[j]>> : i \in DOMAIN this, j \in DOMAIN other}
  \cup {<<other[i], this[j]>> : i \in DOMAIN other, j \in DOMAIN this}

FluxCellEntries(c) ==
  LET d == get_dof_indices(c)
  IN  {<<d[i], d[j]>> : i \in 1 .. dofs_per_cell, j \in 1 .. dofs_per_cell}

\* a faulty variant in which the finer cell does not leave the face to the
\* coarser one
SkipsRefinementEdge_Never(c, nb) == FALSE

\* "Refinement edges are taken care of by coarser cells"
SkipsRefinementEdge(c, nb) == level(nb) < level(c)

\* a faulty variant that leaves the face unmarked
SetUserFlag_Forgets(flags, l) == flags

\* line->set_user_flag()
SetUserFlag(flags, l) == flags \cup {l}

\* history: one more execution of the neighbour block for the cells c and
\* other, recorded with the level of the visiting cell c and that of other
CountBlock(blk, c, other) ==
  LET k == <<{c, other}, level(c), level(other)>>
  IN  IF k \in DOMAIN blk THEN [blk EXCEPT ![k] = @ + 1] ELSE blk @@ (k :> 1)

\* the neighbour block for the cell c and the cell other behind the line l of
\* other; st = [sp: entries, flags: user flags, blk: history]
NeighborBlock(c, other, l, st) ==
  [sp    |-> st.sp \cup NeighborBlockEntries(get_dof_indices(c), get_dof_indices(other)),
   flags |-> SetUserFlag(st.flags, l),
   blk   |-> CountBlock(st.blk, c, other)]

RECURSIVE FluxSubfaces(_, _, _, _, _)
FluxSubfaces(c, nb, neighbor_face, sub_nr, st) ==
  IF sub_nr = subfaces_per_face THEN st
  ELSE LET sub_neighbor == child(nb, child_cell_on_face(neighbor_face, sub_nr))
       IN  FluxSubfaces(c, nb, neighbor_face, sub_nr + 1,
                        NeighborBlock(c, sub_neighbor,
                                      CellFace(sub_neighbor, neighbor_face), st))

\* the body of the loop over the faces of c, for one face
FluxFace(c, face, st) ==
  IF CellFace(c, face) \in st.flags THEN st
  ELSE IF at_boundary(c, face) THEN st
  ELSE LET nb == neighbor(c, face)
       IN  IF SkipsRefinementEdge(c, nb) THEN st
           ELSE LET neighbor_face == neighbor_of_neighbor(c, face)
                IN  IF has_children(nb)
                    THEN FluxSubfaces(c, nb, neighbor_face, 0, st)
                    ELSE NeighborBlock(c, nb, CellFace(nb, neighbor_face), st)

RECURSIVE FluxFaces(_, _, _)
FluxFaces(c, face, st) ==
  IF face = faces_per_cell THEN st
  ELSE FluxFaces(c, face + 1, FluxFace(c, face, st))

FluxEnter ==
  /\ pc = "call" /\ op = "flux"
  /\ IF n_rows # n_dofs \/ n_cols # n_dofs
     THEN Fail("ExcDimensionMismatch") /\ user_flags' = user_flags
     ELSE pc' = "loop" /\ err' = err /\ user_flags' = {}
  /\ UNCHANGED <<otherVars, inputVars, sparsity, visited, blocks, constraints, line_pos>>

\* one pass of the loop over the active cells; the cells are taken in any order
FluxCell ==
  /\ pc = "loop" /\ op = "flux"
  /\ \E cell \in ActiveCells \ visited :
       LET st == FluxFaces(cell, 0, [sp    |-> sparsity \cup FluxCellEntries(cell),
                                     flags |-> user_flags,
                                     blk   |-> blocks])
       IN  /\ sparsity' = st.sp
           /\ user_flags' = st.flags
           /\ blocks' = st.blk
           /\ visited' = visited \cup {cell}
  /\ pc' = IF visited' = ActiveCells THEN "done" ELSE "loop"
  /\ UNCHANGED <<otherVars, inputVars, err, constraints, line_pos>>

----------------------------------------------------------------------------
(* The calls of the sparsity builders *)

Masks(n) ==
  {m \in [1 .. n -> [1 .. n -> BOOLEAN]] : TRUE}
  \cup {[i \in 1 .. n + 1 |-> [j \in 1 .. n |-> TRUE]],
        [i \in 1 .. n |-> [j \in 1 .. n + 1 |-> TRUE]]}

\* the mappings handed to the boundary builders: the one the DoFHandler builds
\* for the selection sel, the same with one entry overwritten, and one that is
\* an entry short
MappingsOf(good) ==
  UNION {{[good EXCEPT ![p] = v] :
            v \in {good[p], invalid_dof_index, 0, MaxValidElement(good)}} :
           p \in DOMAIN good}
  \cup {[d \in DOMAIN good \ {Cardinality(DOMAIN good) - 1} |-> good[d]]}

MappingTable ==
  [r \in Meshes |->
     [f \in DOMAIN FEs |->
        [sel \in Selections |-> MappingsOf(BoundaryMappingTable[r][f][sel])]]]

Mappings(sel) == MappingTable[refined][fe][sel]

InitCommon ==
  /\ pc = "call" /\ err = ""
  /\ sparsity = {} /\ visited = {} /\ blocks = <<>>
  /\ constraints = <<>> /\ line_pos = 0

\* compute_intergrid_constraints is not running
NoIntergrid ==
  /\ coarse_refined = {} /\ coarse_fe = 1
  /\ coarse_component = 0 /\ fine_component = 0
  /\ past_the_end = <<>> /\ weights = <<>> /\ representants = <<>>

\* no direct solver is in use
NoSolver ==
  /\ ad = <<>> /\ parameter_list = <<>>
  /\ klu2_params = <<>> /\ amesos2_parameters = <<>>

\* no MatrixFree object is in use
NoMatrixFree ==
  /\ scratch_pad = <<>> /\ thread_pc = <<>> /\ thread_it = <<>>
  /\ held = <<>> /\ outstanding = <<>>
  /\ face_partition_data = <<>> /\ boundary_partition_data = <<>>
  /\ faces = <<>> /\ macro_face = 0 /\ result = 0
  /\ vectors = <<>> /\ src_and_dst_are_same = FALSE
  /\ src_vector_face_access = "unspecified"
  /\ dst_vector_face_access = "unspecified" /\ part_kind = "full"
  /\ n_face_variants = 0 /\ exchanger = <<>>
  /\ scratch_pad_non_threadsafe = <<>> /\ entry_ghosted = <<>>
  /\ worker = <<>> /\ issued = {}
  /\ n_array_elements = 1 /\ cell_level_index = <<>> /\ macro_cell = 0
  /\ face_info = <<>> /\ cell_active_fe_index = <<>>

NoMask == <<>>

NoMapping == <<>>

\* the boundary indicators the boundary builder called selects
SelectedIndicators ==
  IF op = "boundary" THEN AllIndicators ELSE boundary_indicators \ {interior_indicator}

\* the number of rows and of columns the builder called compares with
ExpectedSize ==
  IF op \in {"boundary", "boundary_map"}
  THEN n_boundary_dofs(SelectedIndicators) ELSE n_dofs

InitSparsity ==
  /\ InitCommon
  /\ NoIntergrid
  /\ NoMatrixFree
  /\ NoSolver
  /\ refined \in Meshes
  /\ op \in {"plain", "masked", "boundary", "boundary_map", "flux"}
  /\ fe \in (IF op = "flux" THEN {1, 4} ELSE DOMAIN FEs)
  /\ dim \in (IF op \in {"boundary", "boundary_map"} THEN {1, 2} ELSE {2})
  /\ user_flags \in (IF op = "flux" THEN {{}, AllLines} ELSE {{}})
  /\ entry_user_flags = user_flags
  /\ mask \in (IF op = "masked" THEN Masks(FE.n_components) ELSE {NoMask})
  /\ boundary_indicators \in
       (IF op = "boundary_map" /\ dim = 2
        THEN {{}, {0}, {0, 1}, {1, interior_indicator}} ELSE {{}})
  /\ dof_to_boundary_mapping \in
       (CASE op = "boundary" /\ dim = 2 -> Mappings(AllIndicators)
          [] op = "boundary_map" /\ dim = 2 ->
               Mappings(SelectedIndicators)
          [] OTHER -> {NoMapping})
  /\ LET sizes == IF /\ op \in {"boundary", "boundary_map"} /\ dim = 2
                     /\ dof_to_boundary_mapping # BoundaryMapping(SelectedIndicators)
                     /\ Cardinality(DOMAIN dof_to_boundary_mapping) = n_dofs
                  THEN {ExpectedSize}
                  ELSE {ExpectedSize, ExpectedSize + 1}
     IN  /\ n_rows \in sizes
         /\ n_cols \in sizes

NextSparsity ==
  \/ PlainEnter
  \/ PlainCell
  \/ MaskedEnter
  \/ MaskedCell
  \/ BoundaryEnter1d
  \/ BoundaryEnter
  \/ BoundaryFace
  \/ BoundaryMapEnter
  \/ BoundaryMapFace
  \/ FluxEnter
  \/ FluxCell

SpecSparsity == InitSparsity /\ [][NextSparsity]_vars

----------------------------------------------------------------------------
(* make_hanging_node_constraints, in one and in two dimensions.  The        *)
(* variable constraints is the sequence of the lines in the order of the    *)
(* calls of add_line, each with its entries <<column, weight>> in the order *)
(* of the calls of add_entry.                                               *)

\* constraints.add_line (line)
add_line(cm, line) == Append(cm, [line |-> line, entries |-> <<>>])

\* constraints.add_entry (line, column, value): the entry goes to the line
\* added last for this DoF
add_entry(cm, line, column, value) ==
  LET at == CHOOSE p \in DOMAIN cm :
              cm[p].line = line /\ \A q \in DOMAIN cm : cm[q].line = line => q <= p
  IN  [cm EXCEPT ![at].entries = Append(@, <<column, value>>)]

\* fe.constraints().m(), fe.constraints().n() and fe.constraints()(row, i)
constraints_m == Len(FE.constraints)

constraints_n == IF Len(FE.constraints) = 0 THEN 0 ELSE Len(FE.constraints[1])

fe_constraints(row, i) == FE.constraints[row][i]

\* the DoFs of a vertex of a line, and those of its interior, in local order
VertexDofs(l, vertex) ==
  [d \in 1 .. FE.dofs_per_vertex |-> vertex_dof_index(l, vertex, d - 1)]

LineDofs(l) == [d \in 1 .. FE.dofs_per_line |-> line_dof_index(l, d - 1)]

\* a faulty variant that takes the DoFs of vertex 0 for both vertices
dofs_on_mother_SameVertex(line) ==
  VertexDofs(line, 0) \o VertexDofs(line, 0) \o LineDofs(line)

dofs_on_mother(line) ==
  VertexDofs(line, 0) \o VertexDofs(line, 1) \o LineDofs(line)

\* a faulty variant that takes the second child first
dofs_on_children_Swapped(line) ==
  VertexDofs(LineChild(line, 0), 1)
  \o LineDofs(LineChild(line, 1)) \o LineDofs(LineChild(line, 0))

dofs_on_children(line) ==
  VertexDofs(LineChild(line, 0), 1)
  \o LineDofs(LineChild(line, 0)) \o LineDofs(LineChild(line, 1))

\* the loop over the mother DoFs for one row, from position i on
RECURSIVE AddEntries(_, _, _, _, _)
AddEntries(cm, child_dof, mother, row, i) ==
  IF i > Len(mother) THEN cm
  ELSE AddEntries(add_entry(cm, child_dof, mother[i], fe_constraints(row, i)),
                  child_dof, mother, row, i + 1)

\* the loop over the rows of the constraint matrix of one line, from row on
RECURSIVE AddRows(_, _, _, _)
AddRows(cm, children, mother, row) ==
  IF row > Len(children) THEN cm
  ELSE AddRows(AddEntries(add_line(cm, children[row]), children[row], mother, row, 1),
               children, mother, row + 1)

\* the lines of every mesh of the model in the order of the line iterator
LineSeqOf(r) ==
  [i \in 1 .. Cardinality(LineTable[r]) |->
     CHOOSE l \in LineTable[r] :
       Cardinality({o \in LineTable[r] : LineCode(o) < LineCode(l)}) = i - 1]

LineSeqTable == [r \in Meshes |-> LineSeqOf(r)]

Lines == LineSeqTable[refined]

\* the faces the first loops leave flagged: the faces with children of the
\* active cells
MarkedFaces ==
  {l \in {CellFace(c, face) : c \in ActiveCells, face \in 0 .. faces_per_cell - 1} :
     LineHasChildren(l)}

\* the 1d specialisation: nothing to be done
HangingEnter1d ==
  /\ pc = "call" /\ op = "hanging" /\ dim = 1
  /\ pc' = "done"
  /\ UNCHANGED <<otherVars, inputVars, user_flags, err, sparsity, visited, blocks,
                 constraints, line_pos>>

\* the 2d specialisation up to the loop over the lines
HangingEnter ==
  /\ pc = "call" /\ op = "hanging" /\ dim = 2
  /\ user_flags' = MarkedFaces
  /\ line_pos' = 0
  /\ pc' = IF Len(Lines) = 0 THEN "done" ELSE "loop"
  /\ UNCHANGED <<otherVars, inputVars, err, sparsity, visited, blocks, constraints>>

\* one pass of the loop over the lines
HangingLine ==
  /\ pc = "loop" /\ op = "hanging" /\ dim = 2
  /\ LET line == Lines[line_pos + 1]
         next == /\ line_pos' = line_pos + 1
                 /\ pc' = IF line_pos + 1 = Len(Lines) THEN "done" ELSE "loop"
                 /\ err' = err
     IN  IF line \in user_flags
         THEN IF \/ 2 * FE.dofs_per_vertex + FE.dofs_per_line # constraints_n
                 \/ FE.dofs_per_vertex + 2 * FE.dofs_per_line # constraints_m
              THEN Fail("ExcDimensionMismatch") /\ UNCHANGED <<constraints, line_pos>>
              ELSE /\ constraints' = AddRows(constraints, dofs_on_children(line),
                                             dofs_on_mother(line), 1)
                   /\ next
         ELSE next /\ constraints' = constraints
  /\ UNCHANGED <<otherVars, inputVars, user_flags, sparsity, visited, blocks>>

----------------------------------------------------------------------------
(* Three dimensions: a slab of NX by 2 coarse hexahedra of which any subset *)
(* is refined once.  Hexahedra are [x, y, z, s] by lowest corner and size,  *)
(* quads [x, y, z, s, n] by lowest corner, size and normal axis n, lines    *)
(* [x, y, z, s, a] by first vertex, length and axis a.  The vertices of a   *)
(* quad are numbered counterclockwise in its plane, line i runs from vertex *)
(* 0 to 1, 1 to 2, 3 to 2, 0 to 3 for i = 0 .. 3, and child i lies at       *)
(* vertex i.  The global index of a DoF is the code of the point that       *)
(* supports it.                                                             *)

CoarseHex(k) == [x |-> 4 * (k % NX), y |-> 4 * (k \div NX), z |-> 0, s |-> 4]

Meshes3 == UNION {{r} : r \in SUBSET (0 .. 2 * NX - 1)}

\* the eight children of a hexahedron
HexChildren(c) ==
  {[x |-> c.x + dx, y |-> c.y + dy, z |-> c.z + dz, s |-> c.s \div 2] :
     dx \in {0, c.s \div 2}, dy \in {0, c.s \div 2}, dz \in {0, c.s \div 2}}

ActiveHexesOf(r) ==
  {CoarseHex(k) : k \in (0 .. 2 * NX - 1) \ r}
  \cup UNION {HexChildren(CoarseHex(k)) : k \in r}

HexesOf(r) == {CoarseHex(k) : k \in 0 .. 2 * NX - 1} \cup ActiveHexesOf(r)

\* the point at the offsets u, v along the two axes of the plane of a quad
\* with lowest corner o and normal axis n
InPlane(o, n, u, v) ==
  CASE n = 0 -> <<o[1], o[2] + u, o[3] + v>>
    [] n = 1 -> <<o[1] + u, o[2], o[3] + v>>
    [] n = 2 -> <<o[1] + u, o[2] + v, o[3]>>

\* the axis along u and the axis along v
AxisU(n) == IF n = 0 THEN 1 ELSE 0

AxisV(n) == IF n = 2 THEN 1 ELSE 2

Quad(pt, s, n) == [x |-> pt[1], y |-> pt[2], z |-> pt[3], s |-> s, n |-> n]

Line3(pt, s, a) == [x |-> pt[1], y |-> pt[2], z |-> pt[3], s |-> s, a |-> a]

Corner(o) == <<o.x, o.y, o.z>>

\* cell->face(i)
HexFace(c, i) ==
  CASE i = 0 -> Quad(<<c.x, c.y, c.z>>, c.s, 0)
    [] i = 1 -> Quad(<<c.x + c.s, c.y, c.z>>, c.s, 0)
    [] i = 2 -> Quad(<<c.x, c.y, c.z>>, c.s, 1)
    [] i = 3 -> Quad(<<c.x, c.y + c.s, c.z>>, c.s, 1)
    [] i = 4 -> Quad(<<c.x, c.y, c.z>>, c.s, 2)
    [] i = 5 -> Quad(<<c.x, c.y, c.z + c.s>>, c.s, 2)

\* face->vertex(i)
QuadVertex(q, i) ==
  CASE i = 0 -> InPlane(Corner(q), q.n, 0, 0)
    [] i = 1 -> InPlane(Corner(q), q.n, q.s, 0)
    [] i = 2 -> InPlane(Corner(q), q.n, q.s, q.s)
    [] i = 3 -> InPlane(Corner(q), q.n, 0, q.s)

\* face->line(i)
QuadLine(q, i) ==
  CASE i = 0 -> Line3(QuadVertex(q, 0), q.s, AxisU(q.n))
    [] i = 1 -> Line3(QuadVertex(q, 1), q.s, AxisV(q.n))
    [] i = 2 -> Line3(QuadVertex(q, 3), q.s, AxisU(q.n))
    [] i = 3 -> Line3(QuadVertex(q, 0), q.s, AxisV(q.n))

\* face->child(i)
QuadChild(q, i) ==
  LET h == q.s \div 2
  IN  CASE i = 0 -> Quad(InPlane(Corner(q), q.n, 0, 0), h, q.n)
        [] i = 1 -> Quad(InPlane(Corner(q), q.n, h, 0), h, q.n)
        [] i = 2 -> Quad(InPlane(Corner(q), q.n, h, h), h, q.n)
        [] i = 3 -> Quad(InPlane(Corner(q), q.n, 0, h), h, q.n)

\* the point at the offset t along a line
AlongLine(l, t) ==
  CASE l.a = 0 -> <<l.x + t, l.y, l.z>>
    [] l.a = 1 -> <<l.x, l.y + t, l.z>>
    [] l.a = 2 -> <<l.x, l.y, l.z + t>>

\* line->vertex(i) and line->child(i)
Line3Vertex(l, i) == AlongLine(l, i * l.s)

Line3Child(l, i) == Line3(AlongLine(l, i * (l.s \div 2)), l.s \div 2, l.a)

\* the quads of every mesh of the model
QuadTable ==
  [r \in Meshes3 |-> {HexFace(c, i) : c \in HexesOf(r), i \in 0 .. 5}]

\* the order of the face iterator: by level, then by position
QuadCode(q) ==
  ((((IF q.s = 4 THEN 0 ELSE 1) * 3 + q.n) * (4 * NX + 1) + q.x) * 9 + q.y) * 5 + q.z

\* the number of quads the iterator passes before each quad
QuadRankTable ==
  [r \in Meshes3 |->
     [q \in QuadTable[r] |->
        Cardinality({o \in QuadTable[r] : QuadCode(o) < QuadCode(q)})]]

QuadSeqOf(r) ==
  [i \in 1 .. Cardinality(QuadTable[r]) |->
     CHOOSE q \in QuadTable[r] : QuadRankTable[r][q] = i - 1]

QuadSeqTable == [r \in Meshes3 |-> QuadSeqOf(r)]

Quads == QuadSeqTable[refined]

AllQuads == QuadTable[refined]

QuadHasChildren(q) == q.s = 4 /\ QuadChild(q, 0) \in AllQuads

\* the faces with children of the active cells
MarkedQuadsOf(r) ==
  {q \in {HexFace(c, i) : c \in ActiveHexesOf(r), i \in 0 .. 5} :
     q.s = 4 /\ QuadChild(q, 0) \in QuadTable[r]}

MarkedQuadTable == [r \in Meshes3 |-> MarkedQuadsOf(r)]

\* the values, in units of 1/8, of the linear and of the quadratic Lagrange
\* polynomial of the node at offset node on a line of length 4, at the
\* offsets 0 .. 4
Phi1(node, t) ==
  IF node = 0 THEN <<8, 6, 4, 2, 0>>[t + 1] ELSE <<0, 2, 4, 6, 8>>[t + 1]

Phi2(node, t) ==
  CASE node = 0 -> <<8, 3, 0, -1, 0>>[t + 1]
    [] node = 2 -> <<0, 6, 8, 6, 0>>[t + 1]
    [] node = 4 -> <<0, -1, 0, 3, 8>>[t + 1]

\* the support points of the mother DoFs and of the child DoFs on the
\* reference face of side 4, in the order of FiniteElement::constraints():
\* vertices, lines, quad; centre, line midpoints, interior lines, bordering
\* half lines, child quads
RefMotherQ1 == << <<0, 0>>, <<4, 0>>, <<4, 4>>, <<0, 4>> >>

RefChildrenQ1 == << <<2, 2>>, <<2, 0>>, <<4, 2>>, <<2, 4>>, <<0, 2>> >>

RefMotherQ2 ==
  << <<0, 0>>, <<4, 0>>, <<4, 4>>, <<0, 4>>,
     <<2, 0>>, <<4, 2>>, <<2, 4>>, <<0, 2>>,
     <<2, 2>> >>

RefChildrenQ2 ==
  << <<2, 2>>,
     <<2, 0>>, <<4, 2>>, <<2, 4>>, <<0, 2>>,
     <<2, 1>>, <<3, 2>>, <<2, 3>>, <<1, 2>>,
     <<1, 0>>, <<3, 0>>, <<4, 1>>, <<4, 3>>, <<1, 4>>, <<3, 4>>, <<0, 1>>, <<0, 3>>,
     <<1, 1>>, <<3, 1>>, <<3, 3>>, <<1, 3>> >>

\* the elements in three dimensions; constraints is fe.constraints() in units
\* of 1/64
FE3_Q1 ==
  [dofs_per_vertex |-> 1, dofs_per_line |-> 0, dofs_per_quad |-> 0,
   constraints |->
     [row \in DOMAIN RefChildrenQ1 |->
        [i \in DOMAIN RefMotherQ1 |->
           Phi1(RefMotherQ1[i][1], RefChildrenQ1[row][1])
           * Phi1(RefMotherQ1[i][2], RefChildrenQ1[row][2])]]]

FE3_Q2 ==
  [dofs_per_vertex |-> 1, dofs_per_line |-> 1, dofs_per_quad |-> 1,
   constraints |->
     [row \in DOMAIN RefChildrenQ2 |->
        [i \in DOMAIN RefMotherQ2 |->
           Phi2(RefMotherQ2[i][1], RefChildrenQ2[row][1])
           * Phi2(RefMotherQ2[i][2], RefChildrenQ2[row][2])]]]

FE3s == <<FE3_Q1, FE3_Q2>>

FE3 == FE3s[fe]

\* global DoF indices: the code of the supporting object and point
PointCode(pt) == (pt[1] * 9 + pt[2]) * 5 + pt[3]

ObjectDof(kind, pt, d) == (kind * (4 * NX + 1) * 45 + PointCode(pt)) * 2 + d

\* face->vertex_dof_index(vertex, d), line->dof_index(d), face->dof_index(d)
quad_vertex_dof_index(q, vertex, d) == ObjectDof(0, QuadVertex(q, vertex), d)

line3_vertex_dof_index(l, vertex, d) == ObjectDof(0, Line3Vertex(l, vertex), d)

line3_dof_index(l, d) == ObjectDof(1, AlongLine(l, l.s \div 2), d)

quad_dof_index(q, d) ==
  ObjectDof(2, InPlane(Corner(q), q.n, q.s \div 2, q.s \div 2), d)

QuadVertexDofs(q, vertex) ==
  [d \in 1 .. FE3.dofs_per_vertex |-> quad_vertex_dof_index(q, vertex, d - 1)]

Line3VertexDofs(l, vertex) ==
  [d \in 1 .. FE3.dofs_per_vertex |-> line3_vertex_dof_index(l, vertex, d - 1)]

Line3Dofs(l) == [d \in 1 .. FE3.dofs_per_line |-> line3_dof_index(l, d - 1)]

QuadDofs(q) == [d \in 1 .. FE3.dofs_per_quad |-> quad_dof_index(q, d - 1)]

\* the concatenation of blocks[from], blocks[from + 1], ...
RECURSIVE Flatten(_, _)
Flatten(seqs, from) ==
  IF from > Len(seqs) THEN <<>> ELSE seqs[from] \o Flatten(seqs, from + 1)

dofs_on_mother3(face) ==
  Flatten([vertex \in 1 .. 4 |-> QuadVertexDofs(face, vertex - 1)], 1)
  \o Flatten([line \in 1 .. 4 |-> Line3Dofs(QuadLine(face, line - 1))], 1)
  \o QuadDofs(face)

\* the DoFs at the centres of the lines bounding the face
LineCentreDofs(face) ==
  Flatten([line \in 1 .. 4 |->
             Line3VertexDofs(Line3Child(QuadLine(face, line - 1), 0), 1)], 1)

\* the DoFs on the lines interior to the face
InteriorLineDofs(face) ==
  Line3Dofs(QuadLine(QuadChild(face, 0), 1))
  \o Line3Dofs(QuadLine(QuadChild(face, 1), 2))
  \o Line3Dofs(QuadLine(QuadChild(face, 2), 3))
  \o Line3Dofs(QuadLine(QuadChild(face, 3), 0))

\* the DoFs on the bordering lines: line (k - 1) \div 2, child (k - 1) % 2
BorderingLineDofs(face) ==
  Flatten([k \in 1 .. 8 |->
             Line3Dofs(Line3Child(QuadLine(face, (k - 1) \div 2), (k - 1) % 2))], 1)

ChildQuadDofs(face) ==
  Flatten([c \in 1 .. 4 |-> QuadDofs(QuadChild(face, c - 1))], 1)

dofs_on_children3(face) ==
  QuadVertexDofs(QuadChild(face, 0), 2)
  \o LineCentreDofs(face)
  \o InteriorLineDofs(face)
  \o BorderingLineDofs(face)
  \o ChildQuadDofs(face)

\* the check that the four children agree on the DoF at the centre
CentreVertexAgrees(face) ==
  /\ quad_vertex_dof_index(QuadChild(face, 0), 2, 0)
       = quad_vertex_dof_index(QuadChild(face, 1), 3, 0)
  /\ quad_vertex_dof_index(QuadChild(face, 0), 2, 0)
       = quad_vertex_dof_index(QuadChild(face, 2), 0, 0)
  /\ quad_vertex_dof_index(QuadChild(face, 0), 2, 0)
       = quad_vertex_dof_index(QuadChild(face, 3), 1, 0)

constraints3_m == Len(FE3.constraints)

constraints3_n == IF Len(FE3.constraints) = 0 THEN 0 ELSE Len(FE3.constraints[1])

fe3_constraints(row, i) == FE3.constraints[row][i]

\* the loop over the mother DoFs for one row: the calls of add_entry follow
\* the call of add_line for the row, so the entries go to the line just added
RowLine3(child_dof, mother, row) ==
  [line    |-> child_dof,
   entries |-> [i \in 1 .. Len(mother) |-> <<mother[i], fe3_constraints(row, i)>>]]

\* the loop over the rows of the constraint matrix of one face
AddRows3(cm, children, mother) ==
  cm \o [row \in 1 .. Len(children) |-> RowLine3(children[row], mother, row)]

\* the 3d specialisation up to the loop over the faces
HangingEnter3d ==
  /\ pc = "call" /\ op = "hanging" /\ dim = 3
  /\ user_flags' = MarkedQuadTable[refined]
  /\ line_pos' = 0
  /\ pc' = IF Len(Quads) = 0 THEN "done" ELSE "loop"
  /\ UNCHANGED <<otherVars, inputVars, err, sparsity, visited, blocks, constraints>>

\* one pass of the loop over the faces
HangingQuad ==
  /\ pc = "loop" /\ op = "hanging" /\ dim = 3
  /\ LET face == Quads[line_pos + 1]
         next == /\ line_pos' = line_pos + 1
                 /\ pc' = IF line_pos + 1 = Len(Quads) THEN "done" ELSE "loop"
                 /\ err' = err
     IN  IF face \in user_flags
         THEN IF \/ 4 * FE3.dofs_per_vertex + 4 * FE3.dofs_per_line
                      + FE3.dofs_per_quad # constraints3_n
                 \/ 5 * FE3.dofs_per_vertex + 12 * FE3.dofs_per_line
                      + 4 * FE3.dofs_per_quad # constraints3_m
              THEN Fail("ExcDimensionMismatch") /\ UNCHANGED <<constraints, line_pos>>
              ELSE IF ~CentreVertexAgrees(face)
              THEN Fail("ExcInternalError") /\ UNCHANGED <<constraints, line_pos>>
              ELSE IF \/ Len(dofs_on_children3(face)) # constraints3_m
                      \/ Len(dofs_on_mother3(face)) # constraints3_n
              THEN Fail("ExcDimensionMismatch") /\ UNCHANGED <<constraints, line_pos>>
              ELSE /\ constraints' = AddRows3(constraints, dofs_on_children3(face),
                                              dofs_on_mother3(face))
                   /\ next
         ELSE next /\ constraints' = constraints
  /\ UNCHANGED <<otherVars, inputVars, user_flags, sparsity, visited, blocks>>

InitHNC ==
  /\ InitCommon
  /\ NoIntergrid
  /\ NoMatrixFree
  /\ NoSolver
  /\ op = "hanging"
  /\ dim \in {1, 2, 3}
  /\ refined \in (IF dim = 3 THEN Meshes3 ELSE Meshes)
  /\ fe \in (IF dim = 3 THEN DOMAIN FE3s ELSE DOMAIN FEs)
  /\ user_flags \in (IF dim = 3 THEN {{}, AllQuads} ELSE {{}, AllLines})
  /\ entry_user_flags = user_flags
  /\ n_rows = 0 /\ n_cols = 0
  /\ mask = NoMask
  /\ dof_to_boundary_mapping = NoMapping
  /\ boundary_indicators = {}

NextHNC ==
  \/ HangingEnter1d
  \/ HangingEnter
  \/ HangingLine
  \/ HangingEnter3d
  \/ HangingQuad

SpecHNC == InitHNC /\ [][NextHNC]_vars

----------------------------------------------------------------------------
(* compute_intergrid_constraints: the coarse grid is the mesh coarse_refined *)
(* with the element coarse_fe, the fine grid is the mesh refined with the    *)
(* element fe. Weights are in units of 1/64.                                 *)

\* the weight 1
UnitWeight == 64

\* fe.dofs_per_cell of the element number f
fe_dofs_per_cell(f) ==
  4 * FEs[f].dofs_per_vertex + 4 * FEs[f].dofs_per_line + FEs[f].dofs_per_quad

\* fe.base_element (fe.component_to_base (component)): the number in FEs of the
\* scalar element the element number f is built from
base_element(f) == <<1, 2, 1, 4>>[f]

\* fe.system_to_component_index (i): the component of the local DoF i and its
\* number within the component
SystemToComponentTable ==
  [f \in DOMAIN FEs |->
     [i \in 0 .. fe_dofs_per_cell(f) - 1 |->
        <<FEs[f].component[i + 1],
          Cardinality({j \in 0 .. i - 1 :
                         FEs[f].component[j + 1] = FEs[f].component[i + 1]})>>]]

system_to_component_index(f, i) == SystemToComponentTable[f][i]

\* the arguments fe.component_to_system_index accepts
InIndexRange(f, component, index) ==
  \E i \in 0 .. fe_dofs_per_cell(f) - 1 :
    system_to_component_index(f, i) = <<component, index>>

component_to_system_index(f, component, index) ==
  CHOOSE i \in 0 .. fe_dofs_per_cell(f) - 1 :
    system_to_component_index(f, i) = <<component, index>>

coarse_dofs_per_cell == fe_dofs_per_cell(coarse_fe)

fine_dofs_per_cell == fe_dofs_per_cell(fe)

coarse_dofs_per_cell_component == fe_dofs_per_cell(base_element(coarse_fe))

n_coarse_dofs == Cardinality(DOMAIN DofNumbering[coarse_refined][coarse_fe])

n_fine_dofs == Cardinality(DOMAIN DofNumbering[refined][fe])

\* coarse_to_fine_grid_map[cell]: the cell itself where the fine grid has it,
\* else the cell of the fine grid that contains it
coarse_to_fine_grid_map(c) ==
  IF c \in CellsOf(refined) THEN c ELSE CoarseCell(c.x \div 4)

GridNotCoarser ==
  \E c \in ActiveCellsOf(coarse_refined) : level(c) > level(coarse_to_fine_grid_map(c))

\* the vector with a one at the place i of the element f, the zero vector for
\* i = dofs_per_cell
UnitVector(f, i) ==
  [k \in 1 .. fe_dofs_per_cell(f) |-> IF k - 1 = i THEN UnitWeight ELSE 0]

\* parameter_dofs[local_coarse_dof]: the unit vector of the fine element at
\* the place of the DoF local_coarse_dof of the selected component
parameter_dofs(local_coarse_dof) ==
  UnitVector(fe, component_to_system_index(fe, fine_component, local_coarse_dof))

\* the local DoFs of the coarse element the main loop selects
SelectedLocalDofs ==
  {i \in 0 .. coarse_dofs_per_cell - 1 :
     system_to_component_index(coarse_fe, i)[1] = coarse_component}

\* the global indices of the selected local DoFs of a coarse cell
SelectedRows(cell) ==
  {CellDofTable[coarse_refined][coarse_fe][cell][l + 1] : l \in SelectedLocalDofs}

\* ... and the local DoF of the cell with the global index row
LocalDofOf(cell, row) ==
  CHOOSE l \in 0 .. coarse_dofs_per_cell - 1 :
    CellDofTable[coarse_refined][coarse_fe][cell][l + 1] = row

\* those of them with which parameter_dofs is read behind its end: the vector
\* has coarse_dofs_per_cell_component elements and is indexed with the local
\* DoF number of the whole coarse element
ReadsPastTheEnd ==
  {i \in SelectedLocalDofs : i >= coarse_dofs_per_cell_component}

\* what such a read can yield: a vector of another length, on which the
\* call that uses it stops, or some vector of the length of the element
Garbage ==
  {<<>>, [i \in 1 .. fine_dofs_per_cell |-> 0], parameter_dofs(0)}

\* the active cells of every mesh in the order of the active-cell iterator
ActiveCellSeqOf(r) ==
  [i \in 1 .. Cardinality(ActiveCellsOf(r)) |->
     CHOOSE c \in ActiveCellsOf(r) :
       Cardinality({o \in ActiveCellsOf(r) : CellCode(o) < CellCode(c)}) = i - 1]

ActiveCellSeqTable == [r \in Meshes |-> ActiveCellSeqOf(r)]

\* the elements of s at the indices in I, in order
SubSeqAt(s, I) ==
  [k \in 1 .. Cardinality(I) |->
     s[CHOOSE i \in I : Cardinality({j \in I : j < i}) = k - 1]]

\* the DoFs of the component on one fine cell, in local order
InterestingDofsOn(r, f, component, c) ==
  SubSeqAt(CellDofTable[r][f][c],
           {i \in 1 .. fe_dofs_per_cell(f) :
              system_to_component_index(f, i - 1)[1] = component})

\* the DoFs of the component in the order in which the loop over the active
\* fine cells meets them, cell after cell
MetOf(r, f, component) ==
  Flatten([k \in 1 .. Len(ActiveCellSeqTable[r]) |->
             InterestingDofsOn(r, f, component, ActiveCellSeqTable[r][k])], 1)

MetTable ==
  [r \in Meshes |->
     [f \in DOMAIN FEs |->
        [component \in 0 .. FEs[f].n_components - 1 |-> MetOf(r, f, component)]]]

\* weight_mapping: the DoFs of the component are numbered in the order in
\* which they are met first, the others keep -1
WeightMappingOf(r, f, component) ==
  [d \in 0 .. Cardinality(DOMAIN DofNumbering[r][f]) - 1 |->
     IF \A p \in DOMAIN MetTable[r][f][component] : MetTable[r][f][component][p] # d
     THEN -1
     ELSE Cardinality(
            {MetTable[r][f][component][q] :
               q \in {q \in DOMAIN MetTable[r][f][component] :
                        \A p \in 1 .. q : MetTable[r][f][component][p] # d}})]

WeightMappingTable ==
  [r \in Meshes |->
     [f \in DOMAIN FEs |->
        [component \in 0 .. FEs[f].n_components - 1 |->
           WeightMappingOf(r, f, component)]]]

weight_mapping == WeightMappingTable[refined][fe][fine_component]

n_parameters_on_fine_grid ==
  Cardinality({d \in DOMAIN weight_mapping : weight_mapping[d] # -1})

\* the support point of the local DoF i of the element f on the cell c
SupportPoint(f, c, i) ==
  LET dpv == FEs[f].dofs_per_vertex
      dpl == FEs[f].dofs_per_line
      nv  == 4 * dpv
      nl  == 4 * dpl
      key == IF i < nv THEN VertexKey(CellVertex(c, i \div dpv), 0)
             ELSE IF i < nv + nl THEN LineKey(CellFace(c, (i - nv) \div dpl), 0)
             ELSE QuadKey(c, 0)
  IN  <<key[2], key[3]>>

\* the point p in the coordinates of the cell c, whose side is 4 there
UnitOffset(c, p) == <<((p[1] - c.x) * 4) \div c.s, ((p[2] - c.y) * 4) \div c.s>>

\* the value at the point p of the shape function i of the scalar element b on
\* the cell c
ShapeValue(b, c, i, p) ==
  LET node == UnitOffset(c, SupportPoint(b, c, i))
      t    == UnitOffset(c, p)
  IN  CASE FEs[b].dofs_per_vertex = 0 -> UnitWeight
        [] FEs[b].dofs_per_line = 0 -> Phi1(node[1], t[1]) * Phi1(node[2], t[2])
        [] OTHER -> Phi2(node[1], t[1]) * Phi2(node[2], t[2])

\* fe.prolongate(child)(j, i) of the element f on the cell c: the value of
\* the shape function i of the mother at the support point of the DoF j of
\* the child
prolongate(f, c, ch, j, i) ==
  LET sj == system_to_component_index(f, j)
      si == system_to_component_index(f, i)
  IN  IF sj[1] # si[1] THEN 0
      ELSE ShapeValue(base_element(f), c, si[2],
                      SupportPoint(base_element(f), child(c, ch), sj[2]))

\* cell->set_dof_values (local_values, values) on an active cell of the mesh
\* r with the element f
set_dof_values(r, f, c, local_values, values) ==
  [d \in DOMAIN values |->
     IF \E i \in DOMAIN CellDofTable[r][f][c] : CellDofTable[r][f][c][i] = d
     THEN local_values[CHOOSE i \in DOMAIN CellDofTable[r][f][c] :
                         CellDofTable[r][f][c][i] = d]
     ELSE values[d]]

\* the values of the DoFs of child ch: the prolongation matrix applied to
\* local_values
Prolongated(f, c, ch, local_values) ==
  [j \in 1 .. fe_dofs_per_cell(f) |->
     LET sum[n \in 0 .. fe_dofs_per_cell(f)] ==
           IF n = 0 THEN 0
           ELSE sum[n - 1] + prolongate(f, c, ch, j - 1, n - 1) * local_values[n]
     IN  sum[fe_dofs_per_cell(f)] \div UnitWeight]

\* cell->set_dof_values_by_interpolation (local_values, values): on an active
\* cell the values are set, else they are prolongated to each child in turn
set_dof_values_by_interpolation(r, f, c, local_values, values) ==
  IF c \in ActiveCellsOf(r)
  THEN set_dof_values(r, f, c, local_values, values)
  ELSE set_dof_values(r, f, child(c, 3), Prolongated(f, c, 3, local_values),
         set_dof_values(r, f, child(c, 2), Prolongated(f, c, 2, local_values),
           set_dof_values(r, f, child(c, 1), Prolongated(f, c, 1, local_values),
             set_dof_values(r, f, child(c, 0), Prolongated(f, c, 0, local_values),
                            values))))

\* the place of the one in such a vector
UnitPlace(v) ==
  IF \E k \in DOMAIN v : v[k] # 0 THEN (CHOOSE k \in DOMAIN v : v[k] # 0) - 1
  ELSE Len(v)

\* what set_dof_values_by_interpolation makes of these vectors, starting from
\* the zero vector, on every cell of every mesh and element of the model
InterpolationTable ==
  [r \in Meshes |->
     [f \in DOMAIN FEs |->
        [c \in CellsOf(r) |->
           [i \in 0 .. fe_dofs_per_cell(f) |->
              set_dof_values_by_interpolation(
                r, f, c, UnitVector(f, i),
                [d \in 0 .. Cardinality(DOMAIN DofNumbering[r][f]) - 1 |-> 0])]]]]

\* the variables the function leaves alone
intergridInputs ==
  <<inputVars, user_flags, sparsity, blocks, coarse_refined, coarse_fe,
    coarse_component, fine_component, past_the_end, matrixFreeVars>>

WeightRows == 0 .. n_coarse_dofs - 1

WeightCols == 0 .. n_parameters_on_fine_grid - 1

\* the entry: the checks of the arguments, and the set-up of weights and of
\* weight_mapping. Two calls of the element pass indices it does not have: an
\* element that checks its arguments fails there
IntergridEnter ==
  /\ pc = "call" /\ op = "intergrid"
  /\ \E checked \in BOOLEAN :
       LET bad_component == coarse_component >= FEs[coarse_fe].n_components
           bad_index ==
             \E i \in 0 .. coarse_dofs_per_cell - 1 :
               ~InIndexRange(fe, coarse_component, i)
       IN  IF bad_component /\ checked
           THEN Fail("ExcIndexRange") /\ UNCHANGED <<weights, representants>>
           ELSE IF bad_component
           THEN Fail("ExcInvalidComponent") /\ UNCHANGED <<weights, representants>>
           ELSE IF fine_component >= FEs[fe].n_components
           THEN Fail("ExcInvalidComponent") /\ UNCHANGED <<weights, representants>>
           ELSE IF base_element(coarse_fe) # base_element(fe)
           THEN Fail("ExcFiniteElementsDontMatch") /\ UNCHANGED <<weights, representants>>
           ELSE IF GridNotCoarser
           THEN Fail("ExcGridNotCoarser") /\ UNCHANGED <<weights, representants>>
           ELSE IF bad_index /\ checked
           THEN Fail("ExcIndexRange") /\ UNCHANGED <<weights, representants>>
           ELSE /\ weights' = [e \in WeightRows \X WeightCols |-> 0]
                /\ representants' = [row \in WeightRows |-> -1]
                /\ pc' = "cells"
                /\ err' = err
  /\ UNCHANGED <<intergridInputs, visited, constraints, line_pos>>

\* the next cell of the loop over the active cells of the coarse grid
NextCoarseCell ==
  CHOOSE c \in ActiveCellsOf(coarse_refined) \ visited :
    \A o \in ActiveCellsOf(coarse_refined) \ visited : CellCode(c) <= CellCode(o)

\* the vector the main loop reads as parameter_dofs[local_parameter_dof]
ReadParameterDofs(local_parameter_dof) ==
  IF local_parameter_dof < coarse_dofs_per_cell_component
  THEN parameter_dofs(local_parameter_dof)
  ELSE past_the_end[local_parameter_dof]

\* global_parameter_representation after clear () and
\* set_dof_values_by_interpolation for one local DoF of the coarse cell
Representation(cell, local_parameter_dof) ==
  InterpolationTable[refined][fe][coarse_to_fine_grid_map(cell)]
                    [UnitPlace(ReadParameterDofs(local_parameter_dof))]

\* the inverse of weight_mapping: the fine DoF numbered column
ColumnDofTable ==
  [r \in Meshes |->
     [f \in DOMAIN FEs |->
        [component \in 0 .. FEs[f].n_components - 1 |->
           [column \in 0 .. Cardinality({d \in DOMAIN WeightMappingTable[r][f][component] :
                                           WeightMappingTable[r][f][component][d] # -1}) - 1 |->
              CHOOSE d \in DOMAIN WeightMappingTable[r][f][component] :
                WeightMappingTable[r][f][component][d] = column]]]]

ColumnDof(column) == ColumnDofTable[refined][fe][fine_component][column]

\* a faulty variant that stores every value, zero or not
StoreWeights_AlsoZero(w, cell) ==
  LET rows == SelectedRows(cell)
  IN  [e \in DOMAIN w |->
         IF e[1] \in rows
         THEN Representation(cell, LocalDofOf(cell, e[1]))[ColumnDof(e[2])]
         ELSE w[e]]

\* the weights after the loop over the local DoFs of one coarse cell: the
\* value of the representation at a DoF of the fine component is stored in
\* weights(wi, wj) if it is not zero
StoreWeights(w, cell) ==
  LET rows == SelectedRows(cell)
  IN  [e \in DOMAIN w |->
         IF e[1] \in rows
         THEN LET value ==
                    Representation(cell, LocalDofOf(cell, e[1]))[ColumnDof(e[2])]
              IN  IF value # 0 THEN value ELSE w[e]
         ELSE w[e]]

\* one pass of the loop over the coarse cells
IntergridCell ==
  /\ pc = "cells" /\ op = "intergrid"
  /\ LET cell == NextCoarseCell
     IN  IF \E l \in ReadsPastTheEnd : Len(past_the_end[l]) # fine_dofs_per_cell
         THEN Fail("undefined") /\ UNCHANGED <<weights, visited>>
         ELSE IF \E l \in SelectedLocalDofs :
                   \E i \in DOMAIN weight_mapping :
                     weight_mapping[i] = -1 /\ Representation(cell, l)[i] # 0
         THEN Fail("ExcInternalError") /\ UNCHANGED <<weights, visited>>
         ELSE /\ weights' = StoreWeights(weights, cell)
              /\ visited' = visited \cup {cell}
              /\ pc' = IF visited' = ActiveCellsOf(coarse_refined)
                       THEN "check" ELSE "cells"
              /\ err' = err
  /\ UNCHANGED <<intergridInputs, representants, constraints, line_pos>>

\* the sum of the weights of one column
ColumnSum(w, col) ==
  LET sum[row \in -1 .. n_coarse_dofs - 1] ==
        IF row = -1 THEN 0 ELSE sum[row - 1] + w[<<row, col>>]
  IN  sum[n_coarse_dofs - 1]

\* a faulty variant that admits every sum but a negative one
SumAdmitted_Any(sum) == sum >= 0

\* what the check of the sums admits
SumAdmitted(sum) ==
  sum = UnitWeight \/ (FEs[coarse_fe].n_components > 1 /\ sum = 0)

\* the check of the sums of the columns
IntergridCheck ==
  /\ pc = "check" /\ op = "intergrid"
  /\ IF \E col \in WeightCols : ~SumAdmitted(ColumnSum(weights, col))
     THEN Fail("ExcInternalError")
     ELSE pc' = "representants" /\ err' = err
  /\ UNCHANGED <<intergridInputs, weights, representants, visited, constraints,
                 line_pos>>

\* the column at which the search of a row stops: the first one with weight
\* one, weights.n() if there is none
FirstColumnWithOne(row) ==
  CHOOSE column \in 0 .. n_parameters_on_fine_grid :
    /\ column < n_parameters_on_fine_grid => weights[<<row, column>>] = UnitWeight
    /\ \A other \in 0 .. column - 1 : weights[<<row, other>>] # UnitWeight

\* the loop that finds the representant of every row of weights
IntergridRepresentants ==
  /\ pc = "representants" /\ op = "intergrid"
  /\ IF \E row \in WeightRows : FirstColumnWithOne(row) >= n_parameters_on_fine_grid
     THEN Fail("ExcInternalError") /\ UNCHANGED <<representants, line_pos>>
     ELSE /\ representants' =
               [row \in WeightRows |-> ColumnDof(FirstColumnWithOne(row))]
          /\ line_pos' = 0
          /\ pc' = IF n_fine_dofs = 0 THEN "done" ELSE "constraints"
          /\ err' = err
  /\ UNCHANGED <<intergridInputs, weights, visited, constraints>>

\* the row at which the search of a column stops: the first one with a
\* nonzero weight, weights.m() if there is none
first_used_row(column) ==
  CHOOSE row \in 0 .. n_coarse_dofs :
    /\ row < n_coarse_dofs => weights[<<row, column>>] # 0
    /\ \A other \in 0 .. row - 1 : weights[<<other, column>>] = 0

\* a faulty variant that does not ask whose representant the DoF is
Unconstrained_AnyOne(global_dof) ==
  weights[<<first_used_row(weight_mapping[global_dof]), weight_mapping[global_dof]>>]
    = UnitWeight

\* the test that leaves a DoF unconstrained
Unconstrained(global_dof) ==
  LET row == first_used_row(weight_mapping[global_dof])
  IN  /\ weights[<<row, weight_mapping[global_dof]>>] = UnitWeight
      /\ representants[row] = global_dof

\* the line of a constrained DoF: an entry for every row from first_used_row
\* on whose weight in the column is not zero
IntergridLine(cm, global_dof) ==
  LET column == weight_mapping[global_dof]
      used   == {row \in first_used_row(column) .. n_coarse_dofs - 1 :
                   weights[<<row, column>>] # 0}
      entry  == [row \in 0 .. n_coarse_dofs - 1 |->
                   <<representants[row], weights[<<row, column>>]>>]
  IN  Append(cm, [line |-> global_dof,
                  entries |-> [k \in 1 .. Cardinality(used) |->
                                 entry[CHOOSE row \in used :
                                   Cardinality({o \in used : o < row}) = k - 1]]])

\* one pass of the loop over the DoFs of the fine grid
IntergridDof ==
  /\ pc = "constraints" /\ op = "intergrid"
  /\ LET global_dof == line_pos
         next == /\ line_pos' = line_pos + 1
                 /\ pc' = IF line_pos + 1 = n_fine_dofs THEN "done" ELSE "constraints"
                 /\ err' = err
     IN  IF weight_mapping[global_dof] = -1
         THEN next /\ constraints' = constraints
         ELSE IF first_used_row(weight_mapping[global_dof]) = n_coarse_dofs
         THEN Fail("undefined") /\ UNCHANGED <<constraints, line_pos>>
         ELSE IF Unconstrained(global_dof)
         THEN next /\ constraints' = constraints
         ELSE next /\ constraints' = IntergridLine(constraints, global_dof)
  /\ UNCHANGED <<intergridInputs, weights, representants, visited>>

InitIntergrid ==
  /\ InitCommon
  /\ NoMatrixFree
  /\ NoSolver
  /\ op = "intergrid"
  /\ dim = 2
  /\ refined \in Meshes
  /\ coarse_refined \in Meshes
  /\ fe \in DOMAIN FEs
  /\ coarse_fe \in DOMAIN FEs
  /\ coarse_component \in 0 .. 1
  /\ fine_component \in 0 .. 1
  /\ past_the_end \in
       (IF fine_component < FEs[fe].n_components
        THEN [ReadsPastTheEnd -> Garbage] ELSE {<<>>})
  /\ weights = <<>> /\ representants = <<>>
  /\ user_flags = {}
  /\ entry_user_flags = {}
  /\ n_rows = 0 /\ n_cols = 0
  /\ mask = NoMask
  /\ dof_to_boundary_mapping = NoMapping
  /\ boundary_indicators = {}

NextIntergrid ==
  \/ IntergridEnter
  \/ IntergridCell
  \/ IntergridCheck
  \/ IntergridRepresentants
  \/ IntergridDof

SpecIntergrid == InitIntergrid /\ [][NextIntergrid]_vars

-----------------------------------------------------------------------------
(* MatrixFree: the scratch pads *)

\* the number of threads that use one MatrixFree object
MaxThreads == 2

\* the number of scratch pads the object creates at most
MaxBuffers == 3

Threads == 1 .. MaxThreads

\* DoFTools and its arguments are not in use
NoDoFTools ==
  /\ InitCommon
  /\ NoIntergrid
  /\ dim = 2 /\ refined = {} /\ user_flags = {} /\ fe = 1
  /\ entry_user_flags = {}
  /\ n_rows = 0 /\ n_cols = 0
  /\ mask = NoMask
  /\ dof_to_boundary_mapping = NoMapping
  /\ boundary_indicators = {}

\* the variables of DoFTools
dofToolsVars ==
  <<inputVars, intergridVars, user_flags, sparsity, visited, blocks,
    constraints, line_pos>>

\* a faulty variant in which all threads get one list
scratch_pad_get_Shared(t) == 1

\* scratch_pad.get (): the list of the calling thread
scratch_pad_get(t) == t

\* the entries of a list whose flag is not set, as positions
FreeEntries(data) == {i \in DOMAIN data : data[i].first = FALSE}

\* the position of the buffer in a list, 0 if it is not there
PositionOf(data, scratch) ==
  IF \E i \in DOMAIN data : data[i].second = scratch
  THEN CHOOSE i \in DOMAIN data : data[i].second = scratch
  ELSE 0

\* acquire_scratch_data, the loop over the list: it stops at the first entry
\* whose flag is false, or at the end
AcquireScan(t) ==
  /\ pc = "call" /\ op = "scratch"
  /\ thread_pc[t] = "idle"
  /\ LET data == scratch_pad[scratch_pad_get(t)]
     IN  IF FreeEntries(data) # {}
         THEN /\ thread_it' =
                   [thread_it EXCEPT ![t] =
                      data[CHOOSE i \in FreeEntries(data) :
                             \A o \in FreeEntries(data) : i <= o].second]
              /\ thread_pc' = [thread_pc EXCEPT ![t] = "take"]
         ELSE /\ Len(outstanding) < MaxBuffers
              /\ thread_it' = thread_it
              /\ thread_pc' = [thread_pc EXCEPT ![t] = "push"]
  /\ UNCHANGED <<pc, err, scratch_pad, held, outstanding>>
  /\ UNCHANGED <<dofToolsVars, faceVars, loopInputs, result, vectors,
                 exchanger, scratch_pad_non_threadsafe, issued>>

\* acquire_scratch_data: it->first = true; return &it->second
AcquireTake(t) ==
  /\ pc = "call" /\ op = "scratch"
  /\ thread_pc[t] = "take"
  /\ LET list == scratch_pad_get(t)
         i    == PositionOf(scratch_pad[list], thread_it[t])
     IN  scratch_pad' = [scratch_pad EXCEPT ![list][i].first = TRUE]
  /\ held' = [held EXCEPT ![t] = @ \cup {thread_it[t]}]
  /\ outstanding' = [outstanding EXCEPT ![thread_it[t]] = @ + 1]
  /\ thread_pc' = [thread_pc EXCEPT ![t] = "idle"]
  /\ thread_it' = [thread_it EXCEPT ![t] = 0]
  /\ UNCHANGED <<pc, err>>
  /\ UNCHANGED <<dofToolsVars, faceVars, loopInputs, result, vectors,
                 exchanger, scratch_pad_non_threadsafe, issued>>

\* acquire_scratch_data: data.push_front (...); return &data.front ().second
AcquirePush(t) ==
  /\ pc = "call" /\ op = "scratch"
  /\ thread_pc[t] = "push"
  /\ LET list  == scratch_pad_get(t)
         fresh == Len(outstanding) + 1
     IN  /\ scratch_pad' =
              [scratch_pad EXCEPT ![list] =
                 <<[first |-> TRUE, second |-> fresh]>> \o @]
         /\ held' = [held EXCEPT ![t] = @ \cup {fresh}]
         /\ outstanding' = Append(outstanding, 1)
  /\ thread_pc' = [thread_pc EXCEPT ![t] = "idle"]
  /\ UNCHANGED <<pc, err, thread_it>>
  /\ UNCHANGED <<dofToolsVars, faceVars, loopInputs, result, vectors,
                 exchanger, scratch_pad_non_threadsafe, issued>>

\* acquire_scratch_data_non_threadsafe (): the list after the call, and the
\* pointer it returns
acquire_scratch_data_non_threadsafe(pad) ==
  IF FreeEntries(pad) # {}
  THEN LET i == CHOOSE i \in FreeEntries(pad) : \A o \in FreeEntries(pad) : i <= o
       IN  [pad |-> [pad EXCEPT ![i].first = TRUE], scratch |-> pad[i].second]
  ELSE [pad     |-> <<[first |-> TRUE, second |-> Len(pad) + 1]>> \o pad,
        scratch |-> Len(pad) + 1]

\* release_scratch_data_non_threadsafe (scratch): the list after the call, and
\* the exception it raises
release_scratch_data_non_threadsafe(pad, scratch) ==
  LET i == PositionOf(pad, scratch)
  IN  IF i = 0
      THEN [pad |-> pad, error |-> "Tried to release invalid scratch pad"]
      ELSE IF pad[i].first # TRUE
      THEN [pad |-> pad, error |-> "ExcInternalError"]
      ELSE [pad |-> [pad EXCEPT ![i].first = FALSE], error |-> ""]

\* a call of acquire_scratch_data_non_threadsafe
AcquireNonThreadsafe ==
  /\ pc = "call" /\ op = "scratch_non_threadsafe"
  /\ \/ FreeEntries(scratch_pad_non_threadsafe) # {}
     \/ Len(scratch_pad_non_threadsafe) < MaxBuffers
  /\ LET a == acquire_scratch_data_non_threadsafe(scratch_pad_non_threadsafe)
     IN  /\ scratch_pad_non_threadsafe' = a.pad
         /\ outstanding' =
              IF a.scratch > Len(outstanding) THEN Append(outstanding, 1)
              ELSE [outstanding EXCEPT ![a.scratch] = @ + 1]
  /\ UNCHANGED <<pc, err, scratch_pad, thread_pc, thread_it, held>>
  /\ UNCHANGED <<dofToolsVars, faceVars, loopInputs, result, vectors,
                 exchanger, issued>>

\* a call of release_scratch_data_non_threadsafe (scratch): the exception of
\* AssertThrow reaches the caller, the Assert stops the program
ReleaseNonThreadsafe(scratch) ==
  /\ pc = "call" /\ op = "scratch_non_threadsafe"
  /\ LET r == release_scratch_data_non_threadsafe(scratch_pad_non_threadsafe,
                                                  scratch)
     IN  /\ scratch_pad_non_threadsafe' = r.pad
         /\ IF r.error = "ExcInternalError" THEN Fail(r.error)
            ELSE /\ pc' = pc
                 /\ err' = IF r.error # "" THEN r.error ELSE err
         /\ outstanding' =
              IF r.error = ""
              THEN [outstanding EXCEPT ![scratch] = IF @ > 0 THEN @ - 1 ELSE 0]
              ELSE outstanding
  /\ UNCHANGED <<scratch_pad, thread_pc, thread_it, held>>
  /\ UNCHANGED <<dofToolsVars, faceVars, loopInputs, result, vectors,
                 exchanger, issued>>

\* a faulty variant that gives back the first entry of the list for a
\* pointer that is in no entry of it
ReleaseScratchData_FirstEntry(t, scratch) ==
  /\ pc = "call" /\ op = "scratch"
  /\ thread_pc[t] = "idle"
  /\ LET list == scratch_pad_get(t)
         i    == PositionOf(scratch_pad[list], scratch)
     IN  IF i = 0 /\ Len(scratch_pad[list]) = 0
         THEN /\ err' = "Tried to release invalid scratch pad"
              /\ UNCHANGED <<pc, scratch_pad, held, outstanding>>
         ELSE IF i = 0
         THEN /\ scratch_pad' = [scratch_pad EXCEPT ![list][1].first = FALSE]
              /\ UNCHANGED <<pc, err, held, outstanding>>
         ELSE IF scratch_pad[list][i].first # TRUE
         THEN Fail("ExcInternalError")
              /\ UNCHANGED <<scratch_pad, held, outstanding>>
         ELSE /\ scratch_pad' = [scratch_pad EXCEPT ![list][i].first = FALSE]
              /\ held' = [held EXCEPT ![t] = @ \ {scratch}]
              /\ outstanding' =
                   [outstanding EXCEPT ![scratch] = IF @ > 0 THEN @ - 1 ELSE 0]
              /\ UNCHANGED <<pc, err>>
  /\ UNCHANGED <<thread_pc, thread_it>>
  /\ UNCHANGED <<dofToolsVars, faceVars, loopInputs, result, vectors,
                 exchanger, scratch_pad_non_threadsafe, issued>>

\* release_scratch_data (scratch): the entry of the list of the calling thread
\* that holds scratch gets its flag cleared; a pointer that is not in the list
\* raises an exception and changes nothing
ReleaseScratchData(t, scratch) ==
  /\ pc = "call" /\ op = "scratch"
  /\ thread_pc[t] = "idle"
  /\ LET list == scratch_pad_get(t)
         i    == PositionOf(scratch_pad[list], scratch)
     IN  IF i = 0
         THEN /\ err' = "Tried to release invalid scratch pad"
              /\ UNCHANGED <<pc, scratch_pad, held, outstanding>>
         ELSE IF scratch_pad[list][i].first # TRUE
         THEN Fail("ExcInternalError")
              /\ UNCHANGED <<scratch_pad, held, outstanding>>
         ELSE /\ scratch_pad' = [scratch_pad EXCEPT ![list][i].first = FALSE]
              /\ held' = [held EXCEPT ![t] = @ \ {scratch}]
              /\ outstanding' =
                   [outstanding EXCEPT ![scratch] = IF @ > 0 THEN @ - 1 ELSE 0]
              /\ UNCHANGED <<pc, err>>
  /\ UNCHANGED <<thread_pc, thread_it>>
  /\ UNCHANGED <<dofToolsVars, faceVars, loopInputs, result, vectors,
                 exchanger, scratch_pad_non_threadsafe, issued>>

\* the calls of acquire_scratch_data by the threads, in steps
Acquire ==
  \E t \in Threads : AcquireScan(t) \/ AcquireTake(t) \/ AcquirePush(t)

\* the calls of release_scratch_data: a thread passes a pointer it holds, or
\* any other pointer to a scratch pad, or a pointer to no scratch pad
Release ==
  \E t \in Threads : \E scratch \in 1 .. Len(outstanding) + 1 :
    ReleaseScratchData(t, scratch)

\* the calls of release_scratch_data_non_threadsafe with the same pointers
ReleaseNonThreadsafeCall ==
  \E scratch \in 1 .. Len(outstanding) + 1 : ReleaseNonThreadsafe(scratch)

InitScratch ==
  /\ NoDoFTools
  /\ NoSolver
  /\ op \in {"scratch", "scratch_non_threadsafe"}
  /\ scratch_pad = [t \in Threads |-> <<>>]
  /\ thread_pc = [t \in Threads |-> "idle"]
  /\ thread_it = [t \in Threads |-> 0]
  /\ held = [t \in Threads |-> {}]
  /\ outstanding = <<>>
  /\ face_partition_data = <<>> /\ boundary_partition_data = <<>>
  /\ faces = <<>> /\ macro_face = 0 /\ result = 0
  /\ vectors = <<>> /\ src_and_dst_are_same = FALSE
  /\ src_vector_face_access = "unspecified"
  /\ dst_vector_face_access = "unspecified" /\ part_kind = "full"
  /\ n_face_variants = 0 /\ exchanger = <<>>
  /\ scratch_pad_non_threadsafe = <<>> /\ entry_ghosted = <<>>
  /\ worker = <<>> /\ issued = {}
  /\ n_array_elements = 1 /\ cell_level_index = <<>> /\ macro_cell = 0
  /\ face_info = <<>> /\ cell_active_fe_index = <<>>

NextScratch ==
  \/ Acquire
  \/ Release
  \/ AcquireNonThreadsafe
  \/ ReleaseNonThreadsafeCall

SpecScratch == InitScratch /\ [][NextScratch]_vars

-----------------------------------------------------------------------------
(* MatrixFree: the face data, the loop and the exchange of vector data *)

\* the number of blocks of a vector at most
MaxBlocks == 2

\* the number of face batches of one kind at most
MaxFaceBatches == 1

DataAccessOnFaces == {"none", "values", "gradients", "unspecified"}

\* n_inner_face_batches ()
NInnerFaceBatches ==
  /\ pc = "call" /\ op = "n_inner_face_batches"
  /\ result' = IF Len(face_partition_data) = 0
               THEN 0
               ELSE face_partition_data[Len(face_partition_data)]
  /\ pc' = "done"
  /\ UNCHANGED <<err, dofToolsVars, scratchVars, faceVars, loopInputs, vectors,
                 exchanger, scratch_pad_non_threadsafe, issued>>

\* n_boundary_face_batches ()
NBoundaryFaceBatches ==
  /\ pc = "call" /\ op = "n_boundary_face_batches"
  /\ result' = IF Len(face_partition_data) = 0
               THEN 0
               ELSE boundary_partition_data[Len(boundary_partition_data)]
                      - face_partition_data[Len(face_partition_data)]
  /\ pc' = "done"
  /\ UNCHANGED <<err, dofToolsVars, scratchVars, faceVars, loopInputs, vectors,
                 exchanger, scratch_pad_non_threadsafe, issued>>

\* n_ghost_inner_face_batches ()
NGhostInnerFaceBatches ==
  /\ pc = "call" /\ op = "n_ghost_inner_face_batches"
  /\ result' = IF Len(face_partition_data) = 0
               THEN 0
               ELSE Len(faces)
                      - boundary_partition_data[Len(boundary_partition_data)]
  /\ pc' = "done"
  /\ UNCHANGED <<err, dofToolsVars, scratchVars, faceVars, loopInputs, vectors,
                 exchanger, scratch_pad_non_threadsafe, issued>>

\* what a read of an element of an empty vector can yield, if it yields
\* anything
Unsigned == 0 .. 2 * MaxFaceBatches + 1

\* get_boundary_id (macro_face): the Assert reads the first and the last
\* element of boundary_partition_data, and the return statement reads
\* faces[macro_face]; a read outside a vector stops the program or yields
\* some value
GetBoundaryId ==
  /\ pc = "call" /\ op = "get_boundary_id"
  /\ \E first \in Unsigned, last \in Unsigned, id \in 0 .. 1, trap \in BOOLEAN :
       LET defined == Len(boundary_partition_data) > 0
           lower == IF defined THEN boundary_partition_data[1] ELSE first
           upper == IF defined
                    THEN boundary_partition_data[Len(boundary_partition_data)]
                    ELSE last
       IN  IF ~defined /\ trap
           THEN Fail("undefined") /\ result' = result
           ELSE IF ~(macro_face >= lower /\ macro_face < upper)
           THEN Fail("ExcIndexRange") /\ result' = result
           ELSE IF macro_face < Len(faces)
           THEN /\ result' = faces[macro_face + 1]
                /\ pc' = "done" /\ err' = err
           ELSE IF trap
           THEN Fail("undefined") /\ result' = result
           ELSE /\ result' = id
                /\ pc' = "done" /\ err' = err
  /\ UNCHANGED <<dofToolsVars, scratchVars, faceVars, loopInputs, vectors,
                 exchanger, scratch_pad_non_threadsafe, issued>>

\* the width of the vectorized data types of the model
MaxWidth == 3

\* numbers::invalid_unsigned_int
invalid_unsigned_int == 65535

\* task_info.cell_partition_data.back (): the number of cell batches
n_macro_cells == Len(cell_level_index) \div n_array_elements

\* the entry of cell_level_index for a lane of a cell batch, both counted
\* from 0
LaneOf(batch, lane) == cell_level_index[batch * n_array_elements + lane + 1]

\* a faulty variant that compares the first two lanes
at_irregular_cell_FirstLanes(batch) ==
  n_array_elements > 1 /\ LaneOf(batch, 0) = LaneOf(batch, 1)

\* the return statement of at_irregular_cell (macro_cell)
at_irregular_cell(batch) ==
  /\ n_array_elements > 1
  /\ LaneOf(batch, n_array_elements - 1) = LaneOf(batch, n_array_elements - 2)

\* the while loop of n_active_entries_per_cell_batch (cell_batch_number)
n_active_entries_per_cell_batch(batch) ==
  LET from[n_components \in 1 .. n_array_elements] ==
        IF /\ n_components > 1
           /\ LaneOf(batch, n_components - 1) = LaneOf(batch, n_components - 2)
        THEN from[n_components - 1]
        ELSE n_components
  IN  from[n_array_elements]

\* at_irregular_cell (macro_cell)
AtIrregularCell ==
  /\ pc = "call" /\ op = "at_irregular_cell"
  /\ IF ~(macro_cell < n_macro_cells)
     THEN Fail("ExcIndexRange") /\ result' = result
     ELSE /\ result' = at_irregular_cell(macro_cell)
          /\ pc' = "done" /\ err' = err
  /\ UNCHANGED <<dofToolsVars, scratchVars, faceVars, loopInputs, vectors,
                 exchanger, scratch_pad_non_threadsafe, issued>>

\* n_active_entries_per_cell_batch (cell_batch_number), and
\* n_components_filled, which returns its result
NActiveEntriesPerCellBatch ==
  /\ pc = "call" /\ op = "n_active_entries_per_cell_batch"
  /\ IF ~(macro_cell < n_macro_cells)
     THEN Fail("ExcIndexRange") /\ result' = result
     ELSE LET n_components == n_active_entries_per_cell_batch(macro_cell)
          IN  IF ~(n_components - 1 < n_array_elements)
              THEN Fail("ExcIndexRange") /\ result' = result
              ELSE /\ result' = n_components
                   /\ pc' = "done" /\ err' = err
  /\ UNCHANGED <<dofToolsVars, scratchVars, faceVars, loopInputs, vectors,
                 exchanger, scratch_pad_non_threadsafe, issued>>

\* the larger of two numbers
Max(a, b) == IF a >= b THEN a ELSE b

\* the first loop of get_face_category: result.first after the lanes before
\* lane v of cells_interior
CategoryFirst(face) ==
  LET after[v \in 0 .. n_array_elements] ==
        IF v = 0 THEN 0
        ELSE IF \E u \in 1 .. v : face.cells_interior[u] = invalid_unsigned_int
        THEN after[v - 1]
        ELSE Max(after[v - 1], cell_active_fe_index[face.cells_interior[v] + 1])
  IN  after[n_array_elements]

\* the second loop of get_face_category: every lane of cells_exterior
\* assigns the larger of result.first and the category of its cell
CategorySecond(face) ==
  LET after[v \in 0 .. n_array_elements] ==
        IF v = 0 THEN 0
        ELSE IF \E u \in 1 .. v : face.cells_exterior[u] = invalid_unsigned_int
        THEN after[v - 1]
        ELSE Max(CategoryFirst(face),
                 cell_active_fe_index[face.cells_exterior[v] + 1])
  IN  IF face.cells_exterior[1] # invalid_unsigned_int
      THEN after[n_array_elements]
      ELSE invalid_unsigned_int

\* get_face_category (macro_face)
GetFaceCategory ==
  /\ pc = "call" /\ op = "get_face_category"
  /\ IF ~(macro_face < Len(face_info))
     THEN Fail("ExcIndexRange") /\ result' = result
     ELSE /\ result' =
               IF Len(cell_active_fe_index) = 0 THEN <<0, 0>>
               ELSE <<CategoryFirst(face_info[macro_face + 1]),
                      CategorySecond(face_info[macro_face + 1])>>
          /\ pc' = "done" /\ err' = err
  /\ UNCHANGED <<dofToolsVars, scratchVars, faceVars, loopInputs, vectors,
                 exchanger, scratch_pad_non_threadsafe, issued>>

\* a faulty variant that keeps the mode that was asked for
EffectiveAccess_AsRequested(vector_face_access) == vector_face_access

\* the constructor of VectorDataExchange: the mode the exchanger works with
EffectiveAccess(vector_face_access) ==
  IF Len(face_partition_data) = 0 THEN "unspecified" ELSE vector_face_access

\* the constructor of VectorDataExchange
VectorDataExchange(vector_face_access, n_components) ==
  [vector_face_access |-> EffectiveAccess(vector_face_access),
   ghosts_were_set    |-> FALSE,
   tmp_data           |-> [c \in 1 .. n_components |-> 0]]

\* the vector dst refers to
Dst == IF src_and_dst_are_same THEN "src" ELSE "dst"

\* the constructor of MFWorker
LoopEnter ==
  /\ pc = "call" /\ op = "loop"
  /\ exchanger' =
       [src |-> VectorDataExchange(src_vector_face_access, Len(vectors.src)),
        dst |-> VectorDataExchange(dst_vector_face_access, Len(vectors[Dst]))]
  /\ IF /\ \E name \in {"src", "dst"} :
             exchanger'[name].vector_face_access # "unspecified"
        /\ n_face_variants # 3
     THEN Fail("ExcDimensionMismatch")
     ELSE pc' = "ghosts_start" /\ err' = err
  /\ UNCHANGED <<dofToolsVars, scratchVars, faceVars, loopInputs, result,
                 vectors, scratch_pad_non_threadsafe, issued>>

\* the first branch of the functions of the exchanger: they call the function
\* of the vector itself
UsesVector(ex) ==
  ex.vector_face_access = "unspecified" \/ part_kind = "full"

\* the branch that takes a scratch pad for the block
WithScratch(s, c) ==
  LET a == acquire_scratch_data_non_threadsafe(s.pad)
  IN  [s EXCEPT !.pad = a.pad, !.ex.tmp_data[c] = a.scratch]

\* the branch that gives the scratch pad of the block back
ScratchReleased(s, c) ==
  LET r == release_scratch_data_non_threadsafe(s.pad, s.ex.tmp_data[c])
  IN  [s EXCEPT !.pad = r.pad, !.error = r.error, !.ex.tmp_data[c] = 0]

\* VectorDataExchange::update_ghost_values_start for block c
update_ghost_values_start(s, c) ==
  LET s1 == [s EXCEPT !.ex.ghosts_were_set = @ \/ s.vec[c].ghosted]
  IN  IF UsesVector(s.ex) THEN s1
      ELSE IF part_kind = "empty" THEN s1
      ELSE WithScratch(s1, c)

\* a faulty variant that goes on to the release for a partitioner without
\* ghost and import indices
update_ghost_values_finish_NoReturn(s, c) ==
  IF UsesVector(s.ex)
  THEN [s EXCEPT !.vec[c].ghost = <<1, 1>>, !.vec[c].ghosted = TRUE]
  ELSE ScratchReleased([s EXCEPT !.vec[c].ghost[1] = 1], c)

\* VectorDataExchange::update_ghost_values_finish for block c: the vector
\* imports all its ghost entries and is ghosted, or the ghost entries of the
\* partitioner of the faces are written into the array of the vector
update_ghost_values_finish(s, c) ==
  IF UsesVector(s.ex)
  THEN [s EXCEPT !.vec[c].ghost = <<1, 1>>, !.vec[c].ghosted = TRUE]
  ELSE IF part_kind = "empty" THEN s
  ELSE ScratchReleased([s EXCEPT !.vec[c].ghost[1] = 1], c)

\* VectorDataExchange::compress_start for block c
compress_start(s, c) ==
  IF s.vec[c].ghosted THEN [s EXCEPT !.error = "ExcNotImplemented"]
  ELSE IF UsesVector(s.ex) THEN s
  ELSE IF part_kind = "empty" THEN s
  ELSE WithScratch(s, c)

\* VectorDataExchange::compress_finish for block c: the ghost entries are
\* added to their owners and set to zero
compress_finish(s, c) ==
  IF UsesVector(s.ex)
  THEN [s EXCEPT !.vec[c].ghost = <<0, 0>>]
  ELSE IF part_kind = "empty" THEN s
  ELSE ScratchReleased([s EXCEPT !.vec[c].ghost[1] = 0], c)

\* VectorDataExchange::reset_ghost_values for block c
reset_ghost_values(s, c) ==
  IF s.ex.ghosts_were_set = TRUE THEN s
  ELSE IF UsesVector(s.ex)
  THEN [s EXCEPT !.vec[c].ghost = <<0, 0>>, !.vec[c].ghosted = FALSE]
  ELSE IF part_kind = "subset"
  THEN [s EXCEPT !.vec[c].ghost[1] = 0]
  ELSE s

\* the call of a function of the exchanger for block c
CallForBlock(function, s, c) ==
  CASE function = "update_ghost_values_start"  -> update_ghost_values_start(s, c)
    [] function = "update_ghost_values_finish" -> update_ghost_values_finish(s, c)
    [] function = "compress_start"             -> compress_start(s, c)
    [] function = "compress_finish"            -> compress_finish(s, c)

\* the loops over the blocks of a vector in namespace internal: the function
\* is called for one block after the other, until one call raises an exception
ForBlocks(function, name, which) ==
  LET start == [ex |-> exchanger[which], pad |-> scratch_pad_non_threadsafe,
                vec |-> vectors[name], error |-> ""]
      after[c \in 0 .. Len(vectors[name])] ==
        IF c = 0 THEN start
        ELSE IF after[c - 1].error # "" THEN after[c - 1]
        ELSE CallForBlock(function, after[c - 1], c)
  IN  after[Len(vectors[name])]

\* the state of the program after the loops over the blocks
Stored(s, name, which, next) ==
  /\ exchanger' = [exchanger EXCEPT ![which] = s.ex]
  /\ scratch_pad_non_threadsafe' = s.pad
  /\ vectors' = [vectors EXCEPT ![name] = s.vec]
  /\ IF s.error # "" THEN Fail(s.error) ELSE pc' = next /\ err' = err

\* the calls the worker has made after it has called the function of the
\* exchanger for the vector name, or a function of the caller for a range
Issued(function, name) == issued' = issued \cup {<<function, name, <<>>>>}

\* the same after a function of the caller was called for a range
Invoked(function, range) == issued' = issued \cup {<<function, Dst, range>>}

\* a faulty variant that keeps the argument zero_dst_vector
zero_dst_vector_setting_AsGiven == worker.zero_dst_vector

\* the constructor of MFWorker: the member zero_dst_vector_setting
zero_dst_vector_setting == worker.zero_dst_vector /\ ~src_and_dst_are_same

\* MFWorker::vector_update_ghosts_start
VectorUpdateGhostsStart ==
  /\ pc = "ghosts_start" /\ op = "loop"
  /\ IF ~src_and_dst_are_same
     THEN /\ Stored(ForBlocks("update_ghost_values_start", "src", "src"),
                    "src", "src", "ghosts_finish")
          /\ Issued("update_ghost_values_start", "src")
     ELSE /\ pc' = "ghosts_finish"
          /\ UNCHANGED <<err, exchanger, scratch_pad_non_threadsafe, vectors,
                         issued>>
  /\ UNCHANGED <<dofToolsVars, scratchVars, faceVars, loopInputs, result>>

\* MFWorker::vector_update_ghosts_finish
VectorUpdateGhostsFinish ==
  /\ pc = "ghosts_finish" /\ op = "loop"
  /\ IF ~src_and_dst_are_same
     THEN /\ Stored(ForBlocks("update_ghost_values_finish", "src", "src"),
                    "src", "src", "zero")
          /\ Issued("update_ghost_values_finish", "src")
     ELSE /\ pc' = "zero"
          /\ UNCHANGED <<err, exchanger, scratch_pad_non_threadsafe, vectors,
                         issued>>
  /\ UNCHANGED <<dofToolsVars, scratchVars, faceVars, loopInputs, result>>

\* internal::zero_vector_region for all blocks of a vector: the memset
\* reaches the entries the process owns and the ghost entries
zero_vector_region(vec) ==
  [c \in DOMAIN vec |-> [vec[c] EXCEPT !.local = 0, !.ghost = <<0, 0>>]]

\* MFWorker::zero_dst_vector_range
ZeroDstVectorRange ==
  /\ pc = "zero" /\ op = "loop"
  /\ IF zero_dst_vector_setting
     THEN /\ vectors' = [vectors EXCEPT ![Dst] = zero_vector_region(@)]
          /\ Issued("zero_vector_region", Dst)
     ELSE UNCHANGED <<vectors, issued>>
  /\ pc' = "cell"
  /\ UNCHANGED <<err, exchanger, scratch_pad_non_threadsafe>>
  /\ UNCHANGED <<dofToolsVars, scratchVars, faceVars, loopInputs, result>>

\* the test that precedes the call of a function of the caller
Invokes(function, range) == function /\ range[2] > range[1]

\* MFWorker::cell: the function of the caller adds to dst; what it adds to
\* the ghost entries of dst is for entries other processes own. It adds to
\* the same entries of every block
Cell ==
  /\ pc = "cell" /\ op = "loop"
  /\ IF Invokes(worker.cell_function, worker.cell_range)
     THEN /\ \E written \in {<<0, 0>>, <<1, 0>>, <<1, 1>>} :
               vectors' =
                 [vectors EXCEPT ![Dst] =
                    [c \in DOMAIN @ |->
                       [@[c] EXCEPT !.ghost =
                          [i \in 1 .. 2 |-> IF written[i] = 1 THEN 1 ELSE @[i]]]]]
          /\ Invoked("cell_function", worker.cell_range)
     ELSE UNCHANGED <<vectors, issued>>
  /\ pc' = "face"
  /\ UNCHANGED <<err, exchanger, scratch_pad_non_threadsafe>>
  /\ UNCHANGED <<dofToolsVars, scratchVars, faceVars, loopInputs, result>>

\* MFWorker::face
Face ==
  /\ pc = "face" /\ op = "loop"
  /\ IF Invokes(worker.face_function, worker.face_range)
     THEN Invoked("face_function", worker.face_range)
     ELSE UNCHANGED issued
  /\ pc' = "boundary"
  /\ UNCHANGED <<err, exchanger, scratch_pad_non_threadsafe, vectors>>
  /\ UNCHANGED <<dofToolsVars, scratchVars, faceVars, loopInputs, result>>

\* MFWorker::boundary
Boundary ==
  /\ pc = "boundary" /\ op = "loop"
  /\ IF Invokes(worker.boundary_function, worker.boundary_range)
     THEN Invoked("boundary_function", worker.boundary_range)
     ELSE UNCHANGED issued
  /\ pc' = "compress_start"
  /\ UNCHANGED <<err, exchanger, scratch_pad_non_threadsafe, vectors>>
  /\ UNCHANGED <<dofToolsVars, scratchVars, faceVars, loopInputs, result>>

\* MFWorker::vector_compress_start
VectorCompressStart ==
  /\ pc = "compress_start" /\ op = "loop"
  /\ Stored(ForBlocks("compress_start", Dst, "dst"), Dst, "dst", "compress_finish")
  /\ Issued("compress_start", Dst)
  /\ UNCHANGED <<dofToolsVars, scratchVars, faceVars, loopInputs, result>>

\* MFWorker::vector_compress_finish: compress_finish for dst, then
\* reset_ghost_values for src if it is another vector
VectorCompressFinish ==
  /\ pc = "compress_finish" /\ op = "loop"
  /\ LET d == ForBlocks("compress_finish", Dst, "dst")
     IN  IF src_and_dst_are_same \/ d.error # ""
         THEN /\ Stored(d, Dst, "dst", "done")
              /\ Issued("compress_finish", Dst)
         ELSE LET start == [ex |-> exchanger.src, pad |-> d.pad,
                            vec |-> vectors.src, error |-> ""]
                  after[c \in 0 .. Len(vectors.src)] ==
                    IF c = 0 THEN start ELSE reset_ghost_values(after[c - 1], c)
                  r == after[Len(vectors.src)]
              IN  /\ exchanger' = [src |-> r.ex, dst |-> d.ex]
                  /\ scratch_pad_non_threadsafe' = r.pad
                  /\ vectors' = [src |-> r.vec, dst |-> d.vec]
                  /\ issued' = issued \cup {<<"compress_finish", Dst, <<>>>>,
                                            <<"reset_ghost_values", "src", <<>>>>}
                  /\ pc' = "done" /\ err' = err
  /\ UNCHANGED <<dofToolsVars, scratchVars, faceVars, loopInputs, result>>

\* a block of a distributed vector on entry: a ghosted vector holds the
\* values of its ghost entries, the ghost entries of another one are zero
BlockOnEntry(ghosted) ==
  [ghosted |-> ghosted, ghost |-> IF ghosted THEN <<1, 1>> ELSE <<0, 0>>,
   local |-> 1]

\* the vectors with up to MaxBlocks blocks
VectorsOnEntry ==
  UNION {[1 .. n -> {BlockOnEntry(TRUE), BlockOnEntry(FALSE)}] : n \in 1 .. MaxBlocks}

\* the face data reinit has built, and that of an object without face data
FaceData ==
  {[face_partition_data |-> <<>>, boundary_partition_data |-> <<>>,
    faces |-> <<>>]}
  \cup
  UNION {UNION {
    {[face_partition_data     |-> <<0, inner>>,
      boundary_partition_data |-> <<inner, inner + boundary>>,
      faces                   |-> f] :
       f \in [1 .. inner + boundary + ghost -> 0 .. 1]} :
           ghost \in 0 .. MaxFaceBatches} :
             <<inner, boundary>> \in (0 .. MaxFaceBatches) \X (0 .. MaxFaceBatches)}

\* scratch_pad_non_threadsafe on entry of the loop: no buffer yet, or one
\* buffer the caller has acquired and holds, and one it has given back
PadsOnEntry ==
  {<<>>, <<[first |-> TRUE, second |-> 1], [first |-> FALSE, second |-> 2]>>}

\* the ranges the scheduler calls the worker with: an empty and a filled one
Ranges == {<<0, 0>>, <<0, 1>>}

\* the arguments of cell_loop and loop that reach the worker (cell_loop
\* passes no function for the faces), and the ranges it is called with
Workers ==
  {[zero_dst_vector |-> zero, cell_function |-> cell,
    face_function |-> face, boundary_function |-> face,
    cell_range |-> rc, face_range |-> rf, boundary_range |-> rb] :
       zero \in BOOLEAN, cell \in BOOLEAN, face \in BOOLEAN,
       rc \in Ranges, rf \in Ranges, rb \in Ranges}

\* a call of loop with its three functions for filled ranges, that leaves
\* dst as it is
PlainWorker ==
  [zero_dst_vector |-> FALSE, cell_function |-> TRUE, face_function |-> TRUE,
   boundary_function |-> TRUE, cell_range |-> <<0, 1>>,
   face_range |-> <<0, 1>>, boundary_range |-> <<0, 1>>]

\* the calls whose vectors are exchanged by the functions of the vectors
\* alone: the arguments of the worker vary for these calls
PlainExchange ==
  /\ Len(face_partition_data) = 0 /\ n_face_variants = 0
  /\ src_vector_face_access = "unspecified"
  /\ dst_vector_face_access = "unspecified"
  /\ part_kind = "full" /\ scratch_pad_non_threadsafe = <<>>

\* the queries of the batches of cells and of the categories of a face batch
BatchQueries ==
  {"at_irregular_cell", "n_active_entries_per_cell_batch", "get_face_category"}

\* cell_level_index for batches of the given width: the cells of the mesh
\* fill the leading lanes of a batch, and every other lane repeats the entry
\* of the last cell of the batch
CellLevelIndex(width, filled) ==
  [i \in 1 .. Len(filled) * width |->
     LET batch == (i - 1) \div width
         lane  == (i - 1) % width
     IN  batch * width +
           (IF lane < filled[batch + 1] THEN lane ELSE filled[batch + 1] - 1)]

\* cell_level_index of one or two batches with any number of cells in them
CellLevelIndices(width) ==
  UNION {{CellLevelIndex(width, filled) : filled \in [1 .. n -> 1 .. width]} :
           n \in 1 .. 2}

\* cells_interior or cells_exterior of a face batch with k faces: the cells
\* of the leading lanes, and invalid_unsigned_int in the other lanes
FaceLanes(width, k) ==
  {[v \in 1 .. width |-> IF v <= k THEN cells[v] ELSE invalid_unsigned_int] :
     cells \in [1 .. k -> 0 .. 1]}

\* face_info.faces with one batch of interior faces or of boundary faces
FaceInfos(width) ==
  UNION {{<<[cells_interior |-> interior, cells_exterior |-> exterior]>> :
            interior \in FaceLanes(width, k),
            exterior \in FaceLanes(width, k) \cup FaceLanes(width, 0)} :
           k \in 1 .. width}

\* cell_active_fe_index of a mesh of two cells, and that of a MatrixFree
\* object that holds no categories
CellCategories == {<<>>} \cup [1 .. 2 -> 0 .. 2]

InitMatrixFree ==
  /\ NoDoFTools
  /\ NoSolver
  /\ op \in {"loop", "n_inner_face_batches", "n_boundary_face_batches",
             "n_ghost_inner_face_batches", "get_boundary_id"} \cup BatchQueries
  /\ n_array_elements \in (IF op \in BatchQueries THEN 1 .. MaxWidth ELSE {1})
  /\ IF op \in {"at_irregular_cell", "n_active_entries_per_cell_batch"}
     THEN /\ cell_level_index \in CellLevelIndices(n_array_elements)
          /\ macro_cell \in 0 .. n_macro_cells
     ELSE cell_level_index = <<>> /\ macro_cell = 0
  /\ IF op = "get_face_category"
     THEN /\ face_info \in FaceInfos(n_array_elements)
          /\ cell_active_fe_index \in CellCategories
     ELSE face_info = <<>> /\ cell_active_fe_index = <<>>
  /\ scratch_pad = <<>> /\ thread_pc = <<>> /\ thread_it = <<>>
  /\ held = <<>> /\ outstanding = <<>>
  /\ \E data \in FaceData :
       /\ op = "loop" => data.faces \in {<<>>, <<0, 0>>}
       /\ op \in BatchQueries => Len(data.face_partition_data) = 0
       /\ face_partition_data = data.face_partition_data
       /\ boundary_partition_data = data.boundary_partition_data
       /\ faces = data.faces
  /\ macro_face \in (IF op = "get_boundary_id" THEN Unsigned
                     ELSE IF op = "get_face_category" THEN 0 .. 1 ELSE {0})
  /\ result = 0
  /\ n_face_variants \in (IF op \in BatchQueries THEN {0}
                          ELSE IF Len(face_partition_data) = 0 THEN {0, 3}
                          ELSE {3})
  /\ IF op = "loop"
     THEN /\ src_and_dst_are_same \in BOOLEAN
          /\ src_vector_face_access \in DataAccessOnFaces
          /\ dst_vector_face_access \in DataAccessOnFaces
          /\ part_kind \in {"full", "subset", "empty"}
          /\ \E src \in VectorsOnEntry :
               /\ entry_ghosted = [c \in DOMAIN src |-> src[c].ghosted]
               /\ IF src_and_dst_are_same
                  THEN vectors = [src |-> src]
                  ELSE \E dst \in VectorsOnEntry :
                         /\ Len(dst) = Len(src)
                         /\ vectors = [src |-> src, dst |-> dst]
     ELSE /\ src_and_dst_are_same = FALSE
          /\ src_vector_face_access = "unspecified"
          /\ dst_vector_face_access = "unspecified"
          /\ part_kind = "full"
          /\ entry_ghosted = <<>>
          /\ vectors = <<>>
  /\ exchanger = <<>>
  /\ scratch_pad_non_threadsafe \in (IF op = "loop" THEN PadsOnEntry ELSE {<<>>})
  /\ worker \in (IF op # "loop" THEN {<<>>}
                 ELSE IF PlainExchange THEN Workers ELSE {PlainWorker})
  /\ issued = {}

NextMatrixFree ==
  \/ NInnerFaceBatches
  \/ NBoundaryFaceBatches
  \/ NGhostInnerFaceBatches
  \/ GetBoundaryId
  \/ AtIrregularCell
  \/ NActiveEntriesPerCellBatch
  \/ GetFaceCategory
  \/ LoopEnter
  \/ VectorUpdateGhostsStart
  \/ VectorUpdateGhostsFinish
  \/ ZeroDstVectorRange
  \/ Cell
  \/ Face
  \/ Boundary
  \/ VectorCompressStart
  \/ VectorCompressFinish

SpecMatrixFree == InitMatrixFree /\ [][NextMatrixFree]_vars

----------------------------------------------------------------------------
(* Properties of the sparsity builders *)

BoundaryOps == {"boundary", "boundary_map"}

\* the mesh has a refined cell next to an unrefined one
HasRefinementEdge == refined # {} /\ refined # 0 .. NX - 1

\* C1: the pattern the plain make_sparsity_pattern builds is symmetric:
\* whenever it holds the entry (i, j) it holds the entry (j, i)
C1_PlainSymmetric ==
  op = "plain" => \A e \in sparsity : <<e[2], e[1]>> \in sparsity

C1_Witness ==
  op = "plain" /\ pc = "done" /\ \E e \in sparsity : e[1] # e[2]

AllTrueMask == \A i \in DOMAIN mask : \A j \in DOMAIN mask[i] : mask[i][j]

\* C2: the entries the masked make_sparsity_pattern adds are among those the
\* plain one adds on the same mesh, and with a mask that is true everywhere
\* they are the same entries
C2_MaskedSubsetOfPlain ==
  (op = "masked" /\ pc = "done") =>
    /\ sparsity \subseteq PlainResult
    /\ AllTrueMask => sparsity = PlainResult

C2_Witness ==
  /\ op = "masked" /\ pc = "done"
  /\ ~AllTrueMask /\ sparsity # {} /\ sparsity # PlainResult

\* two active cells share a face or a sub-face
SharesFace(a, b) ==
  /\ a # b
  /\ \E i, j \in 0 .. faces_per_cell - 1 :
       \/ LineOn(CellFace(a, i), CellFace(b, j))
       \/ LineOn(CellFace(b, j), CellFace(a, i))

\* the ordered pairs of active cells that do, on every mesh of the model
AdjacentTable ==
  [r \in Meshes |->
     {q \in ActiveCellsOf(r) \X ActiveCellsOf(r) : SharesFace(q[1], q[2])}]

AdjacentPairsTable == [r \in Meshes |-> {{q[1], q[2]} : q \in AdjacentTable[r]}]

AdjacentPairs == AdjacentPairsTable[refined]

InteriorFacesTable ==
  [r \in Meshes |-> {l \in ActiveLineTable[r] : ~LineAtBoundary(l)}]

InteriorFaces == InteriorFacesTable[refined]

KeysOf(pair) == {k \in DOMAIN blocks : k[1] = pair}

\* C3: in whatever order make_flux_sparsity_pattern visits the active cells,
\* the neighbour block of two active cells that share a face or a sub-face is
\* executed exactly once, never for other cells, and the number of blocks
\* executed is the number of interior faces
C3_EachFaceOnce ==
  op = "flux" =>
    /\ \A k \in DOMAIN blocks :
         k[1] \in AdjacentPairs /\ blocks[k] = 1 /\ KeysOf(k[1]) = {k}
    /\ pc = "done" =>
         /\ \A pair \in AdjacentPairs : KeysOf(pair) # {}
         /\ Cardinality(DOMAIN blocks) = Cardinality(InteriorFaces)

C3_Witness ==
  /\ op = "flux" /\ pc = "done" /\ HasRefinementEdge
  /\ \A pair \in AdjacentPairs : \E k \in KeysOf(pair) : blocks[k] = 1
  /\ Cardinality(DOMAIN blocks) = Cardinality(InteriorFaces)

\* C4, as the specification states it: a face between cells of different
\* levels is processed by the finer cell, so the cell that executes a
\* neighbour block is never coarser than the other cell
C4_FinerSideProcesses ==
  op = "flux" => \A k \in DOMAIN blocks : k[2] >= k[3]

\* C4, as the code has it: a face between cells of different levels is
\* processed by the coarser cell and skipped by the finer one, so the cell
\* that executes a neighbour block is never finer than the other cell
C4_CoarserSideProcesses ==
  op = "flux" => \A k \in DOMAIN blocks : k[2] <= k[3]

C4_Witness ==
  op = "flux" /\ pc = "done" /\ \E k \in DOMAIN blocks : k[2] < k[3]

\* all pairs of a DoF of the cell a with a DoF of the cell b, on the mesh r
\* with the element f
Coupling(r, f, a, b) ==
  LET da == CellDofTable[r][f][a]
      db == CellDofTable[r][f][b]
  IN  {<<da[i], db[j]>> : i \in DOMAIN da, j \in DOMAIN db}

CellLocalTable ==
  [r \in Meshes |->
     [f \in DOMAIN FEs |-> UNION {Coupling(r, f, c, c) : c \in ActiveCellsOf(r)}]]

CellLocal == CellLocalTable[refined][fe]

FluxReferenceTable ==
  [r \in Meshes |->
     [f \in DOMAIN FEs |->
        CellLocalTable[r][f]
        \cup UNION {Coupling(r, f, q[1], q[2]) : q \in AdjacentTable[r]}]]

FluxReference == FluxReferenceTable[refined][fe]

\* C5: the entries make_flux_sparsity_pattern adds are the couplings of the
\* DoFs of each active cell among themselves and, in both directions, of the
\* DoFs of any two active cells that share a face or a sub-face
C5_FluxEntries ==
  (op = "flux" /\ pc = "done") => sparsity = FluxReference

C5_Witness ==
  /\ op = "flux" /\ pc = "done" /\ HasRefinementEdge
  /\ \E e \in sparsity : e \notin CellLocal

\* the face is one whose DoFs the boundary builder called adds
Processed(l) ==
  IF op = "boundary" THEN LineAtBoundary(l)
  ELSE boundary_indicator(l) \in boundary_indicators

MapsToInvalid(l) ==
  \E i \in DOMAIN face_get_dof_indices(l) :
    dof_to_boundary_mapping[face_get_dof_indices(l)[i]] = invalid_dof_index

\* C6: both overloads of make_boundary_sparsity_pattern fail with an internal
\* error at a processed boundary face one of whose DoFs maps to the invalid
\* index, and no entry of the pattern has the invalid index as row or column
C6_SentinelNeverAdded ==
  (op \in BoundaryOps /\ dim = 2) =>
    /\ \A l \in visited :
         (Processed(l) /\ MapsToInvalid(l)) =>
           pc = "failed" /\ err = "ExcInternalError"
    /\ \A e \in sparsity : e[1] # invalid_dof_index /\ e[2] # invalid_dof_index

\* C7: make_boundary_sparsity_pattern does not complete with a mapping that
\* sends two boundary DoFs to the same boundary index
C7_NonInjectiveMappingFails ==
  (op \in BoundaryOps /\ dim = 2 /\ pc = "done") =>
    \A a, b \in BoundaryDofs(SelectedIndicators) :
      a # b => dof_to_boundary_mapping[a] # dof_to_boundary_mapping[b]

\* C8, as the specification states it: in one dimension both overloads of
\* make_boundary_sparsity_pattern return normally and leave the pattern as
\* it was
C8_OneDimReturns ==
  (op \in BoundaryOps /\ dim = 1 /\ pc # "call") =>
    pc = "done" /\ err = "" /\ sparsity = {}

\* C8, as the code has it: in one dimension both overloads of
\* make_boundary_sparsity_pattern fail with an internal error, and leave the
\* pattern as it was
C8_OneDimFails ==
  (op \in BoundaryOps /\ dim = 1 /\ pc # "call") =>
    pc = "failed" /\ err = "ExcInternalError" /\ sparsity = {}

C8_Witness ==
  op \in BoundaryOps /\ dim = 1 /\ pc = "failed" /\ sparsity = {}

SizeMismatch == n_rows # ExpectedSize \/ n_cols # ExpectedSize

\* C9, as the specification states it: a builder called with a pattern of
\* the wrong number of rows or columns fails with a dimension mismatch
\* before it adds an entry
C9_MismatchIsDimensionError ==
  (SizeMismatch /\ pc # "call") =>
    pc = "failed" /\ err = "ExcDimensionMismatch" /\ sparsity = {}

\* the failure of a check that a boundary builder makes before it compares
\* the sizes, "" if there is none
EarlierFailure ==
  IF op \in BoundaryOps /\ dim = 1 THEN "ExcInternalError"
  ELSE IF op \in BoundaryOps /\ Cardinality(DOMAIN dof_to_boundary_mapping) # n_dofs
  THEN "ExcInternalError"
  ELSE IF op = "boundary_map" /\ interior_indicator \in boundary_indicators
  THEN "ExcInvalidBoundaryIndicator"
  ELSE ""

\* C9, as the code has it: a builder called with a pattern of the wrong
\* number of rows or columns fails before it adds an entry; the failure is a
\* dimension mismatch unless a boundary builder fails an earlier check, which
\* is the internal error of the 1d specialisations and of a mapping of the
\* wrong length, and the invalid boundary indicator
C9_MismatchFailsBeforeEntries ==
  (SizeMismatch /\ pc # "call") =>
    /\ pc = "failed" /\ sparsity = {}
    /\ err = IF EarlierFailure = "" THEN "ExcDimensionMismatch" ELSE EarlierFailure

C9_Witness ==
  /\ SizeMismatch /\ pc = "failed" /\ sparsity = {}
  /\ op = "boundary_map" /\ err = "ExcDimensionMismatch"

----------------------------------------------------------------------------
(* Properties of the hanging-node constraints *)

\* the lines that are a face with children of an active cell
HangingFaces ==
  {l \in AllLines :
     /\ LineHasChildren(l)
     /\ \E c \in ActiveCells, face \in 0 .. faces_per_cell - 1 : CellFace(c, face) = l}

\* the number of such lines the line iterator passes before l
HangingRank(l) == Cardinality({o \in HangingFaces : LineCode(o) < LineCode(l)})

RowsPerFace == FE.dofs_per_vertex + 2 * FE.dofs_per_line

ColsPerFace == 2 * FE.dofs_per_vertex + FE.dofs_per_line

Midpoint(l) ==
  IF l.h THEN <<l.x + l.s \div 2, l.y>> ELSE <<l.x, l.y + l.s \div 2>>

DofOf(key) == DofNumbering[refined][fe][key]

\* the child DoF of position row: the DoFs of the midpoint, then the interior
\* DoFs of child 0, then those of child 1
ChildDofAt(l, row) ==
  LET dpv == FE.dofs_per_vertex
      dpl == FE.dofs_per_line
  IN  IF row <= dpv THEN DofOf(VertexKey(Midpoint(l), row - 1))
      ELSE IF row <= dpv + dpl THEN DofOf(LineKey(LineChild(l, 0), row - dpv - 1))
      ELSE DofOf(LineKey(LineChild(l, 1), row - dpv - dpl - 1))

\* the mother DoF of position col: the DoFs of vertex 0, then those of vertex
\* 1, then the interior DoFs of the line
MotherDofAt(l, col) ==
  LET dpv == FE.dofs_per_vertex
  IN  IF col <= dpv THEN DofOf(VertexKey(LineVertex(l, 0), col - 1))
      ELSE IF col <= 2 * dpv THEN DofOf(VertexKey(LineVertex(l, 1), col - dpv - 1))
      ELSE DofOf(LineKey(l, col - 2 * dpv - 1))

\* C10: the 2d make_hanging_node_constraints emits, for every line that is a
\* face with children of an active cell, dofs_per_vertex + 2*dofs_per_line
\* constraint lines, one per child DoF in the order midpoint DoFs, interior
\* DoFs of child 0, interior DoFs of child 1; the line of the child DoF of
\* position row has one entry per mother DoF in the order DoFs of vertex 0,
\* DoFs of vertex 1, interior DoFs, with the weight fe.constraints()(row, col);
\* no other constraint line is emitted
C10_ConstraintLinesPerFace ==
  (op = "hanging" /\ dim = 2 /\ pc = "done") =>
    /\ Len(constraints) = Cardinality(HangingFaces) * RowsPerFace
    /\ \A l \in HangingFaces : \A row \in 1 .. RowsPerFace :
         LET cl == constraints[HangingRank(l) * RowsPerFace + row]
         IN  /\ cl.line = ChildDofAt(l, row)
             /\ Len(cl.entries) = ColsPerFace
             /\ \A col \in 1 .. ColsPerFace :
                  cl.entries[col] = <<MotherDofAt(l, col), FE.constraints[row][col]>>

C10_Witness ==
  /\ op = "hanging" /\ dim = 2 /\ pc = "done"
  /\ HangingFaces # {} /\ FE.dofs_per_vertex > 0 /\ FE.dofs_per_line > 0
  /\ Len(constraints) = RowsPerFace * Cardinality(HangingFaces)

\* the DoFs at the midpoints of the lines that are a refined face of an
\* active cell
HangingVertexDofs == {DofOf(VertexKey(Midpoint(l), 0)) : l \in HangingFaces}

\* C11: with the element with one DoF per vertex, none per line and the
\* constraint table (1/2, 1/2), the 2d make_hanging_node_constraints emits
\* exactly one constraint line for the DoF of each hanging mid-edge vertex and
\* none for another DoF; the line has exactly the two entries (DoF of vertex
\* 0 of the refined face, 1/2) and (DoF of vertex 1, 1/2), which sum to 1
C11_HalfHalfPerHangingVertex ==
  (op = "hanging" /\ dim = 2 /\ pc = "done" /\ FE = FE_Q1) =>
    /\ {constraints[p].line : p \in DOMAIN constraints} = HangingVertexDofs
    /\ Len(constraints) = Cardinality(HangingVertexDofs)
    /\ \A l \in HangingFaces : \E p \in DOMAIN constraints :
         /\ constraints[p].line = DofOf(VertexKey(Midpoint(l), 0))
         /\ constraints[p].entries =
              << <<DofOf(VertexKey(LineVertex(l, 0), 0)), WeightOne \div 2>>,
                 <<DofOf(VertexKey(LineVertex(l, 1), 0)), WeightOne \div 2>> >>
         /\ constraints[p].entries[1][2] + constraints[p].entries[2][2] = WeightOne

C11_Witness ==
  /\ op = "hanging" /\ dim = 2 /\ pc = "done" /\ FE = FE_Q1
  /\ HasRefinementEdge /\ Len(constraints) > 0

\* C12: during one run of make_hanging_node_constraints, in two and in three
\* dimensions, add_line is called at most once for a DoF index: no two of the
\* lines registered are lines of the same DoF
C12_AddLineOncePerDof ==
  op = "hanging" =>
    \A p, q \in DOMAIN constraints :
      p # q => constraints[p].line # constraints[q].line

----------------------------------------------------------------------------
(* Properties of compute_intergrid_constraints *)

\* the arguments pass the checks at the entry
IntergridValid ==
  /\ coarse_component < FEs[coarse_fe].n_components
  /\ fine_component < FEs[fe].n_components
  /\ base_element(coarse_fe) = base_element(fe)
  /\ ~GridNotCoarser

\* the coarse grid has no hanging nodes
CoarseUniform == coarse_refined \in {{}, 0 .. NX - 1}

\* the loop over the coarse cells is over and has not failed
WeightsComplete == pc \in {"check", "representants", "constraints", "done"}

\* C13: after all coarse cells have been processed every column of weights
\* sums to 1 when the coarse element is scalar, the components match and the
\* coarse grid has no hanging nodes, whatever cells of it the fine grid
\* refines; and on any input, once the check of the sums has passed, the sum
\* of a column is 1, or it is 0 and the coarse element has several components
C13_ColumnSumsOne ==
  (op = "intergrid" /\ WeightsComplete) =>
    /\ (IntergridValid /\ CoarseUniform /\ FEs[coarse_fe].n_components = 1) =>
         \A col \in WeightCols : ColumnSum(weights, col) = UnitWeight
    /\ pc # "check" =>
         \A col \in WeightCols :
           \/ ColumnSum(weights, col) = UnitWeight
           \/ FEs[coarse_fe].n_components > 1 /\ ColumnSum(weights, col) = 0

C13_Witness ==
  /\ op = "intergrid" /\ pc = "representants"
  /\ coarse_refined = {} /\ refined = 0 .. NX - 1
  /\ FEs[coarse_fe].n_components = 1 /\ FEs[fe].n_components = 1
  /\ \E e \in DOMAIN weights : weights[e] \notin {0, UnitWeight}

\* the value the loop over the local DoFs of one coarse cell computes for an
\* entry of weights: that of the representation of the local DoF whose global
\* index is the row, zero for the rows of other cells
Computed(cell, e) ==
  IF e[1] \in SelectedRows(cell)
  THEN Representation(cell, LocalDofOf(cell, e[1]))[ColumnDof(e[2])]
  ELSE 0

\* the cell visited last
LastVisited ==
  CHOOSE c \in visited : \A o \in visited : CellCode(o) <= CellCode(c)

\* C14: a pass of the loop over the coarse cells writes an entry of weights
\* only if the value it computed for it is not zero and leaves it as it was
\* otherwise, so that no entry goes back to zero; at the end an entry holds
\* the last nonzero value a cell computed for it, and zero only if every cell
\* computed zero
C14_NonzeroWeightsKept ==
  /\ [][(op = "intergrid" /\ pc = "cells" /\ pc' # "failed") =>
          LET rows == SelectedRows(NextCoarseCell)
          IN  \A e \in DOMAIN weights :
                IF e[1] \in rows /\ Computed(NextCoarseCell, e) # 0
                THEN weights'[e] = Computed(NextCoarseCell, e)
                ELSE weights'[e] = weights[e]]_vars
  /\ [](op = "intergrid" /\ pc = "done" =>
          \A e \in DOMAIN weights :
            LET nonzero == {c \in visited : Computed(c, e) # 0}
            IN  IF nonzero = {} THEN weights[e] = 0
                ELSE weights[e] =
                       Computed(CHOOSE c \in nonzero :
                                  \A o \in nonzero : CellCode(o) <= CellCode(c), e))

C14_Witness ==
  /\ op = "intergrid" /\ pc = "check"
  /\ \E e \in DOMAIN weights :
       /\ weights[e] # 0
       /\ e[1] \in SelectedRows(LastVisited)
       /\ Computed(LastVisited, e) = 0

\* C15: with valid arguments, whatever the number of components of the
\* coarse element, the search of a representant finds a column with weight 1
\* in every row of weights, and the representant of a row is the fine DoF
\* whose column is the first such column
C15_EveryRowHasRepresentant ==
  op = "intergrid" =>
    /\ (pc = "representants" /\ IntergridValid) =>
         \A row \in WeightRows :
           \E column \in WeightCols : weights[<<row, column>>] = UnitWeight
    /\ pc \in {"constraints", "done"} =>
         \A row \in WeightRows :
           LET column == weight_mapping[representants[row]]
           IN  /\ weights[<<row, column>>] = UnitWeight
               /\ \A other \in 0 .. column - 1 : weights[<<row, other>>] # UnitWeight

\* the only nonzero weight in the column of the DoF is a 1 in a row whose
\* representant is this DoF
OnlyOwnOne(global_dof) ==
  \E row \in WeightRows :
    /\ weights[<<row, weight_mapping[global_dof]>>] = UnitWeight
    /\ representants[row] = global_dof
    /\ \A other \in WeightRows \ {row} :
         weights[<<other, weight_mapping[global_dof]>>] = 0

LinesOf(global_dof) == {p \in DOMAIN constraints : constraints[p].line = global_dof}

\* C16: of the fine DoFs the last loop has passed, one of another component
\* has no line; one of the selected component has no line if the only nonzero
\* weight in its column is a 1 in a row whose representant it is, and exactly
\* one line otherwise, whose entries are the pairs (representant of the row,
\* weight) of the rows with a nonzero weight in the column, each once
C16_ConstraintLines ==
  (op = "intergrid" /\ pc \in {"constraints", "done"}) =>
    \A global_dof \in 0 .. line_pos - 1 :
      IF weight_mapping[global_dof] = -1 \/ OnlyOwnOne(global_dof)
      THEN LinesOf(global_dof) = {}
      ELSE /\ Cardinality(LinesOf(global_dof)) = 1
           /\ \A p \in LinesOf(global_dof) :
                LET used == {row \in WeightRows :
                               weights[<<row, weight_mapping[global_dof]>>] # 0}
                    entries == constraints[p].entries
                IN  /\ Len(entries) = Cardinality(used)
                    /\ {entries[k] : k \in DOMAIN entries} =
                         {<<representants[row],
                            weights[<<row, weight_mapping[global_dof]>>]>> : row \in used}

C16_Witness ==
  /\ op = "intergrid" /\ pc = "done"
  /\ \E d \in DOMAIN weight_mapping : weight_mapping[d] = -1
  /\ \E p \in DOMAIN constraints : Len(constraints[p].entries) > 1
  /\ \E d \in DOMAIN weight_mapping :
       weight_mapping[d] # -1 /\ LinesOf(d) = {}

-----------------------------------------------------------------------------
(* Properties of the scratch pads of MatrixFree *)

\* the in-use flag of a buffer in the lists pad, FALSE for a buffer that is
\* in no list
FlagOf(pad, scratch) ==
  \E list \in DOMAIN pad : \E i \in DOMAIN pad[list] :
    pad[list][i].second = scratch /\ pad[list][i].first = TRUE

\* the buffers that exist
Created(pad) ==
  UNION {{pad[list][i].second : i \in DOMAIN pad[list]} : list \in DOMAIN pad}

\* the step in which acquire_scratch_data returns scratch to thread t
Returns(t, scratch) ==
  scratch \in held'[t] \ held[t]

\* C17: whatever the interleaving of the calls of acquire_scratch_data and
\* release_scratch_data by the threads, no buffer has two outstanding
\* acquisitions; an acquire returns a buffer whose flag was false or a buffer
\* it has just created, sets its flag, and no other thread holds the buffer
C17_ScratchExclusive ==
  /\ [](op = "scratch" =>
          /\ \A scratch \in DOMAIN outstanding : outstanding[scratch] <= 1
          /\ \A t \in Threads : \A u \in Threads \ {t} : held[t] \cap held[u] = {})
  /\ [][op = "scratch" =>
          \A t \in Threads : \A scratch \in DOMAIN outstanding' :
            Returns(t, scratch) =>
              /\ \/ scratch \notin Created(scratch_pad)
                 \/ ~FlagOf(scratch_pad, scratch)
              /\ FlagOf(scratch_pad', scratch)
              /\ \A u \in Threads : scratch \notin held[u]]_vars

\* two threads hold buffers, and one of them is about to take a buffer of
\* its list that was released
C17_Witness ==
  /\ op = "scratch"
  /\ \E t \in Threads : \E u \in Threads \ {t} :
       /\ thread_pc[t] = "take"
       /\ held[t] # {} /\ held[u] # {}
       /\ thread_it[t] \in Created(scratch_pad)
       /\ outstanding[thread_it[t]] = 0

-----------------------------------------------------------------------------
(* Properties of MatrixFree::loop and of the face data *)

\* the loop has returned, and src and dst were two vectors
LoopReturned ==
  op = "loop" /\ pc = "done" /\ ~src_and_dst_are_same

\* C18: after a loop with two vectors src and dst, every block of src that
\* was not ghosted on entry has its ghost entries cleared, whatever the other
\* blocks were on entry, and every block that was ghosted keeps its ghost
\* values
C18_GhostStateRestored ==
  LoopReturned =>
    \A c \in DOMAIN vectors.src :
      IF entry_ghosted[c]
      THEN vectors.src[c].ghost = <<1, 1>>
      ELSE vectors.src[c].ghost = <<0, 0>>

\* the same for the calls in which all blocks of src agree on entry
UniformEntryRestored ==
  (LoopReturned /\ \A c, d \in DOMAIN entry_ghosted :
                     entry_ghosted[c] = entry_ghosted[d])
    => \A c \in DOMAIN vectors.src :
         IF entry_ghosted[c]
         THEN vectors.src[c].ghost = <<1, 1>>
         ELSE vectors.src[c].ghost = <<0, 0>> /\ ~vectors.src[c].ghosted


\* the face data of the object has not been built
NoFaceData == Len(face_partition_data) = 0

CountQueries ==
  {"n_inner_face_batches", "n_boundary_face_batches", "n_ghost_inner_face_batches"}

\* a call of loop that selects a restricted mode of access for a vector
RestrictedLoop ==
  /\ op = "loop"
  /\ \/ src_vector_face_access # "unspecified"
     \/ dst_vector_face_access # "unspecified"

-----------------------------------------------------------------------------
(* Properties of the user flags of the triangulation *)

\* C21: after make_flux_sparsity_pattern or make_hanging_node_constraints
\* has returned, every face of the triangulation has the user flag it had
\* before the call
C21_UserFlagsRestored ==
  (op \in {"flux", "hanging"} /\ pc = "done") => user_flags = entry_user_flags

-----------------------------------------------------------------------------
(* Properties of the checks of dof_to_boundary_mapping *)

\* a boundary builder is called for the whole boundary with the mapping the
\* DoFHandler builds for it, and with a pattern of the size it expects
WholeBoundaryCall ==
  /\ op \in {"boundary", "boundary_map"} /\ dim = 2
  /\ SelectedIndicators = AllIndicators
  /\ n_boundary_dofs(AllIndicators) > 0
  /\ dof_to_boundary_mapping = BoundaryMapping(AllIndicators)
  /\ n_rows = ExpectedSize /\ n_cols = ExpectedSize

\* the call has failed in the checks that precede the loop over the faces
FailedAtEntry == pc = "failed" /\ visited = {}

\* C22: a mapping that numbers the boundary DoFs from 0 without gaps and
\* gives every other DoF the invalid index passes the checks at the entry of
\* both overloads of make_boundary_sparsity_pattern
C22_BothOverloadsAccept ==
  WholeBoundaryCall => ~FailedAtEntry

\* the same for the overload with boundary indicators alone
MapOverloadAccepts ==
  (WholeBoundaryCall /\ op = "boundary_map") => ~FailedAtEntry

-----------------------------------------------------------------------------
(* Properties of the pairs of start and finish of VectorDataExchange *)

\* the buffers of a list of scratch pads that are in use
InUse(pad) == {pad[i].second : i \in {j \in DOMAIN pad : pad[j].first}}

\* the buffers the exchanger of a vector holds in tmp_data
TmpData(ex) == {ex.tmp_data[c] : c \in DOMAIN ex.tmp_data} \ {0}

\* the branch of the functions of the exchanger that works with a buffer
TakesScratch(ex) == ~UsesVector(ex) /\ part_kind = "subset"

\* what a start function has done for all blocks of a vector: it took one
\* buffer for every block in the branch with a buffer and none in the other
\* branches, the buffers were not in use before, and no other flag changed
Started(which) ==
  LET ex == exchanger'[which]
  IN  /\ \A c \in DOMAIN ex.tmp_data :
           (ex.tmp_data[c] # 0) <=> TakesScratch(exchanger[which])
      /\ \A c, d \in DOMAIN ex.tmp_data :
           (c # d /\ ex.tmp_data[c] # 0) => ex.tmp_data[c] # ex.tmp_data[d]
      /\ TmpData(ex) \cap InUse(scratch_pad_non_threadsafe) = {}
      /\ InUse(scratch_pad_non_threadsafe') =
           InUse(scratch_pad_non_threadsafe) \cup TmpData(ex)

\* what the finish function has done: it took the branch of the start
\* function, gave back the buffers the start function took and no other
\* one, left tmp_data null, and reported nothing
Finished(which) ==
  LET ex == exchanger[which]
  IN  /\ pc' # "failed"
      /\ (TmpData(ex) # {}) <=> TakesScratch(ex)
      /\ TmpData(ex) \subseteq InUse(scratch_pad_non_threadsafe)
      /\ InUse(scratch_pad_non_threadsafe') =
           InUse(scratch_pad_non_threadsafe) \ TmpData(ex)
      /\ TmpData(exchanger'[which]) = {}

\* C23: for every block, a start function of the exchanger and the finish
\* function that follows take the same branch: the start function takes a
\* buffer from scratch_pad_non_threadsafe exactly if the finish function
\* gives it back; after the pair tmp_data is null and the buffers in use are
\* those in use before the start function; the finish function gives back
\* no buffer the start function has not taken
C23_StartAndFinishPaired ==
  /\ []((op = "loop" /\ pc \in {"ghosts_start", "zero", "cell", "face",
                                 "boundary", "compress_start", "done"})
          => TmpData(exchanger.src) = {} /\ TmpData(exchanger.dst) = {})
  /\ [][(pc = "ghosts_start" /\ pc' = "ghosts_finish" /\ ~src_and_dst_are_same)
          => Started("src")]_vars
  /\ [][(pc = "ghosts_finish" /\ ~src_and_dst_are_same) => Finished("src")]_vars
  /\ [][(pc = "compress_start" /\ pc' = "compress_finish") => Started("dst")]_vars
  /\ [][pc = "compress_finish" => Finished("dst")]_vars

\* the loop has returned after both pairs worked with buffers for two blocks,
\* and the buffer the caller holds is the one in use
C23_Witness ==
  /\ op = "loop" /\ pc = "done" /\ ~src_and_dst_are_same
  /\ TakesScratch(exchanger.src) /\ TakesScratch(exchanger.dst)
  /\ Len(vectors.src) = 2
  /\ Len(scratch_pad_non_threadsafe) = 3
  /\ InUse(scratch_pad_non_threadsafe) = {1}

-----------------------------------------------------------------------------
(* Properties of MFWorker *)

\* the functions of the exchanger and of the caller the worker has called
\* for a vector
IssuedFor(name) == {call[1] : call \in {i \in issued : i[2] = name}}

-----------------------------------------------------------------------------
(* Properties of the release of scratch pads *)

\* what a call of a release function that matches no outstanding
\* acquisition does: it reports that the pointer is in no entry of the list
\* it has searched, or that the entry is not in use, and it changes no list
RejectsRelease ==
  /\ err' \in {"Tried to release invalid scratch pad", "ExcInternalError"}
  /\ err' = "ExcInternalError" => pc' = "failed"
  /\ scratch_pad' = scratch_pad
  /\ scratch_pad_non_threadsafe' = scratch_pad_non_threadsafe

\* C27: a call of release_scratch_data or release_scratch_data_non_threadsafe
\* with a pointer that matches no outstanding acquisition in the list it
\* searches (a pointer the list has never handed out, a pointer another
\* thread has acquired from its own list, or a buffer that was given back
\* already) reports an error and leaves the in-use flag of every buffer as
\* it was
C27_InvalidReleaseRejected ==
  /\ [][\A t \in Threads : \A scratch \in 1 .. Len(outstanding) + 1 :
          (ReleaseScratchData(t, scratch) /\ scratch \notin held[t])
            => RejectsRelease]_vars
  /\ [][\A scratch \in 1 .. Len(outstanding) + 1 :
          (/\ ReleaseNonThreadsafe(scratch)
           /\ \/ scratch \notin DOMAIN outstanding
              \/ outstanding[scratch] = 0)
            => RejectsRelease]_vars

\* a thread has passed a buffer it had given back before, while it held
\* another buffer
C27_Witness ==
  /\ op = "scratch" /\ pc = "failed" /\ err = "ExcInternalError"
  /\ \E t \in Threads :
       /\ held[t] # {}
       /\ \E i \in DOMAIN scratch_pad[t] : ~scratch_pad[t][i].first

\* release_scratch_data_non_threadsafe has been called with a pointer that
\* is in no entry of the list, while a buffer of the list was in use
NonThreadsafeRejected ==
  /\ op = "scratch_non_threadsafe"
  /\ err = "Tried to release invalid scratch pad"
  /\ InUse(scratch_pad_non_threadsafe) # {}

-----------------------------------------------------------------------------
(* Properties of the queries of the batches of cells *)

\* the lanes at the end of a cell batch that repeat the entry of the lane
\* before them, all the way to the last lane
PaddingLanes(batch) ==
  {lane \in 1 .. n_array_elements - 1 :
     \A later \in lane .. n_array_elements - 1 :
       LaneOf(batch, later) = LaneOf(batch, later - 1)}

\* a query of a cell batch of the object has returned
BatchQueried(query) ==
  op = query /\ pc = "done" /\ n_array_elements > 1

\* C25: for every cell batch and every width above 1, at_irregular_cell is
\* true exactly if n_active_entries_per_cell_batch is less than the width;
\* n_active_entries_per_cell_batch lies between 1 and the width, and is the
\* number of the lanes before the lanes at the end of the batch that repeat
\* the entry of the last cell
C25_IrregularIffNotFull ==
  /\ BatchQueried("at_irregular_cell") =>
       (result <=> n_active_entries_per_cell_batch(macro_cell) < n_array_elements)
  /\ BatchQueried("n_active_entries_per_cell_batch") =>
       /\ result \in 1 .. n_array_elements
       /\ result = n_array_elements - Cardinality(PaddingLanes(macro_cell))
       /\ (result < n_array_elements) <=> at_irregular_cell(macro_cell)

\* at_irregular_cell has returned true for the second batch of width 3, in
\* which one cell is followed by two lanes that repeat it
C25_Witness ==
  /\ BatchQueried("at_irregular_cell") /\ result = TRUE
  /\ n_array_elements = 3 /\ macro_cell = 1
  /\ n_active_entries_per_cell_batch(macro_cell) = 1

\* n_active_entries_per_cell_batch has returned 2 for a batch of width 3
TwoOfThreeFilled ==
  /\ BatchQueried("n_active_entries_per_cell_batch") /\ result = 2
  /\ n_array_elements = 3

-----------------------------------------------------------------------------
(* Properties of get_face_category *)

\* the categories of the cells in the filled lanes of one side of a face
\* batch
CategoriesOf(lanes) ==
  {IF Len(cell_active_fe_index) = 0 THEN 0
   ELSE cell_active_fe_index[lanes[v] + 1] :
     v \in {u \in DOMAIN lanes : lanes[u] # invalid_unsigned_int}}

\* the largest number of a set of categories that is not empty
Largest(categories) ==
  CHOOSE c \in categories : \A d \in categories : d <= c

\* C26: get_face_category returns the largest category of the cells of the
\* interior side as first, and the largest category of the cells of the
\* exterior side as second, or invalid_unsigned_int if the batch has no
\* cells on the exterior side; second does not depend on the categories of
\* the cells of the interior side
C26_FaceCategoryPerSide ==
  (op = "get_face_category" /\ pc = "done") =>
    LET face == face_info[macro_face + 1]
    IN  /\ result[1] = Largest(CategoriesOf(face.cells_interior))
        /\ result[2] =
             IF CategoriesOf(face.cells_exterior) = {} THEN invalid_unsigned_int
             ELSE Largest(CategoriesOf(face.cells_exterior))

\* the same for first alone
FirstIsLargestInterior ==
  (op = "get_face_category" /\ pc = "done") =>
    result[1] = Largest(CategoriesOf(face_info[macro_face + 1].cells_interior))

\* the same on an object that holds categories: the call fails for the
\* batches of interior faces alone
SecondOfBoundaryBatch ==
  (/\ op = "get_face_category" /\ pc = "done"
   /\ Len(cell_active_fe_index) > 0
   /\ CategoriesOf(face_info[macro_face + 1].cells_exterior) = {})
    => result[2] = invalid_unsigned_int

\* what second is: the larger of first and the category of the cell in the
\* last filled lane of the exterior side
SecondAsComputed ==
  (/\ op = "get_face_category" /\ pc = "done"
   /\ Len(cell_active_fe_index) > 0
   /\ CategoriesOf(face_info[macro_face + 1].cells_exterior) # {})
    => LET exterior == face_info[macro_face + 1].cells_exterior
           last == CHOOSE v \in DOMAIN exterior :
                     /\ exterior[v] # invalid_unsigned_int
                     /\ \A u \in DOMAIN exterior :
                          exterior[u] # invalid_unsigned_int => u <= v
       IN  result[2] = Max(result[1], cell_active_fe_index[exterior[last] + 1])

\* second is the largest category of the exterior side on an object that
\* holds categories, for a batch of interior faces
SecondIsLargestExterior ==
  (/\ op = "get_face_category" /\ pc = "done"
   /\ Len(cell_active_fe_index) > 0
   /\ CategoriesOf(face_info[macro_face + 1].cells_exterior) # {})
    => result[2] = Largest(CategoriesOf(face_info[macro_face + 1].cells_exterior))

-----------------------------------------------------------------------------
(* SolverDirectKLU2: the parameter list of the solver *)

\* Teuchos::ParameterList (name): a list without entries; the model keeps
\* the entries of a list as a function of their names
EmptyList == <<>>

\* ParameterList::sublist (name) creates the sublist if the list has none of
\* that name: the list after the call
WithSublist(list, name) ==
  IF name \in DOMAIN list THEN list ELSE list @@ (name :> EmptyList)

\* ParameterList::set (name, value): the list after the call
Set(list, name, value) ==
  [n \in DOMAIN list \cup {name} |-> IF n = name THEN value ELSE list[n]]

\* the five calls of set in the constructor of SolverDirectKLU2
SetKLU2(list, data) ==
  Set(Set(Set(Set(Set(list, "Trans", data.transpose_mode),
                  "Equil", data.equilibrate_matrix),
              "IterRefine", data.iterative_refinement),
          "SymmetricMode", data.symmetric_mode),
      "ColPerm", data.column_permutation)

\* SolverDirectKLU2::AdditionalData::AdditionalData
AdditionalData ==
  [transpose_mode       : {"NOTRANS", "TRANS", "CONJ"},
   symmetric_mode       : BOOLEAN,
   equilibrate_matrix   : BOOLEAN,
   column_permutation   : {"COLAMD", "NATURAL"},
   iterative_refinement : {"NO", "SOLVE"}]

\* what the solver variables keep of the objects outside the solver
SolverFrame ==
  UNCHANGED <<meshInputs, intergridVars, user_flags, sparsity, visited, blocks,
              constraints, line_pos, matrixFreeVars, ad>>

\* the constructor of SolverDirectKLU2: klu2_params is an object of its own,
\* initialised with a copy of the sublist that sublist ("KLU2") returns a
\* reference to; the calls of set change this copy
SolverDirectKLU2 ==
  /\ pc = "call" /\ op = "klu2"
  /\ LET list == WithSublist(EmptyList, "KLU2")
     IN  /\ parameter_list' = list
         /\ klu2_params' = SetKLU2(list["KLU2"], ad)
  /\ pc' = "constructed"
  /\ UNCHANGED <<err, amesos2_parameters>>
  /\ SolverFrame

\* SolverDirectBase::initialize (A)
Initialize ==
  /\ pc = "constructed" /\ op = "klu2"
  /\ amesos2_parameters' = parameter_list
  /\ pc' = "initialized"
  /\ UNCHANGED <<err, parameter_list, klu2_params>>
  /\ SolverFrame

\* SolverDirectBase::solve (x, b) after initialize
Solve ==
  /\ pc = "initialized" /\ op = "klu2"
  /\ pc' = "done"
  /\ UNCHANGED <<err, parameter_list, klu2_params, amesos2_parameters>>
  /\ SolverFrame

\* SolverDirectBase::solve (A, x, b), which calls do_solve
DoSolve ==
  /\ pc = "constructed" /\ op = "klu2"
  /\ amesos2_parameters' = parameter_list
  /\ pc' = "done"
  /\ UNCHANGED <<err, parameter_list, klu2_params>>
  /\ SolverFrame

InitSolver ==
  /\ NoDoFTools
  /\ NoMatrixFree
  /\ op = "klu2"
  /\ ad \in AdditionalData
  /\ parameter_list = <<>> /\ klu2_params = <<>> /\ amesos2_parameters = <<>>

NextSolver ==
  \/ SolverDirectKLU2
  \/ Initialize
  \/ Solve
  \/ DoSolve

SpecSolver == InitSolver /\ [][NextSolver]_vars

-----------------------------------------------------------------------------
(* Properties of the parameter list of SolverDirectKLU2 *)

\* the entries of a list are those the AdditionalData asks for
HoldsOptions(list, data) ==
  /\ {"Trans", "Equil", "IterRefine", "SymmetricMode", "ColPerm"}
       \subseteq DOMAIN list
  /\ list["Trans"] = data.transpose_mode
  /\ list["Equil"] = data.equilibrate_matrix
  /\ list["IterRefine"] = data.iterative_refinement
  /\ list["SymmetricMode"] = data.symmetric_mode
  /\ list["ColPerm"] = data.column_permutation

\* C28: after the constructor of SolverDirectKLU2 the parameter list of the
\* solver, which initialize and do_solve pass to the Amesos2 solver, has a
\* sublist KLU2 whose entries Trans, Equil, IterRefine, SymmetricMode and
\* ColPerm are the values of the AdditionalData
C28_OptionsStored ==
  (op = "klu2" /\ pc # "call") =>
    /\ "KLU2" \in DOMAIN parameter_list
    /\ HoldsOptions(parameter_list["KLU2"], ad)

\* the sublist KLU2 of the stored list exists and has no entries, and the
\* local list of the constructor holds the options
OptionsInLocalListOnly ==
  (op = "klu2" /\ pc # "call") =>
    /\ DOMAIN parameter_list = {"KLU2"}
    /\ DOMAIN parameter_list["KLU2"] = {}
    /\ HoldsOptions(klu2_params, ad)

\* the Amesos2 solver gets the stored list
StoredListPassed ==
  (op = "klu2" /\ pc \in {"initialized", "done"}) =>
    amesos2_parameters = parameter_list

=============================================================================
